---- MODULE Spec2Model ----
(***************************************************************************)
(* A model of the scraping pipeline of medium-scraper:                     *)
(*   - the bounded-concurrency orchestrator (medium_scraper/concurrent.py) *)
(*   - the persistent transport cache (request_sender/cached_sender.py and *)
(*     request_sender/cache_backend.py)                                    *)
(*   - the cache fingerprint _stable_key                                   *)
(* Each component has its own specification over the shared variables.    *)
(***************************************************************************)
EXTENDS Integers, Sequences, FiniteSets, Bags, TLC

None == "None"

(***************************************************************************)
(* Bounds                                                                  *)
(***************************************************************************)
MaxUrls == 3
MaxConcurrency == 2

(***************************************************************************)
(* Generic helpers                                                         *)
(***************************************************************************)
Range(s) == {s[i] : i \in 1..Len(s)}

SeqsUpTo(S, n) == UNION {[1..k -> S] : k \in 0..n}

RECURSIVE SeqWithout(_, _)
SeqWithout(s, x) ==
    IF s = <<>> THEN <<>>
    ELSE IF Head(s) = x THEN SeqWithout(Tail(s), x)
         ELSE <<Head(s)>> \o SeqWithout(Tail(s), x)

(***************************************************************************)
(* URLs.  A URL is the record urlparse splits it into; netloc is the host  *)
(* string cut into chunks so that str.endswith can be computed.            *)
(***************************************************************************)
MkUrl(scheme, netloc, path) == [scheme |-> scheme, netloc |-> netloc, path |-> path]

UrlGood     == MkUrl("https", <<"blog.", "medium.com">>, "/good")
UrlNoArt    == MkUrl("https", <<"medium.com">>, "/no-article")
UrlDown     == MkUrl("https", <<"medium.com">>, "/down")
UrlSlow     == MkUrl("https", <<"medium.com">>, "/slow")
UrlPlain    == MkUrl("http", <<"medium.com">>, "/good")
UrlForeign  == MkUrl("https", <<"example.org">>, "/good")

BatchUrls == {UrlGood, UrlNoArt, UrlDown, UrlSlow, UrlPlain}

\* str.endswith on the chunked host
EndsWith(netloc, suffix) == Len(netloc) >= 1 /\ netloc[Len(netloc)] = suffix

\* a gate that lets every URL through
is_safe_url_open(url) == TRUE

is_safe_url(url) == url.scheme = "https" /\ EndsWith(url.netloc, "medium.com")

(***************************************************************************)
(* The transport behind the sender, as the orchestrator sees it: a call    *)
(* for a URL either returns an HttpResponse or raises.                     *)
(***************************************************************************)
\* Optional values that are not strings: None is Nothing, x is Some(x)
Nothing == <<>>
Some(x) == <<x>>

\* a headers dict
CtHtml == Some([content_type |-> "text/html"])

HttpResponse(url, status_code, headers, text) ==
    [url |-> url, status_code |-> status_code, headers |-> headers, text |-> text]

HtmlArticle(title, body) == [article |-> TRUE, title |-> title, body |-> body]
HtmlNoArticle == [article |-> FALSE, title |-> "", body |-> ""]

Transport(url) ==
    CASE url.path = "/good" ->
            \* served after a redirect: resp.url is not the requested url
            [raises |-> FALSE,
             resp |-> HttpResponse(MkUrl(url.scheme, url.netloc, "/good-1a2b"), 200,
                                   CtHtml, HtmlArticle("Good", "good body"))]
      [] url.path = "/no-article" ->
            [raises |-> FALSE, resp |-> HttpResponse(url, 200, CtHtml, HtmlNoArticle)]
      [] url.path = "/slow" -> [raises |-> TRUE, exc |-> "Timeout"]
      [] OTHER -> [raises |-> TRUE, exc |-> "ConnectionError"]

(***************************************************************************)
(* ArticleParseResult and the part of parse_html the orchestrator depends  *)
(* on: no <article> element gives a failure, anything else a success.      *)
(***************************************************************************)
ParseSuccess(markdown, title) ==
    [error |-> FALSE, markdown |-> markdown, title |-> title, message |-> None]

\* a failure that keeps a title next to its message
ParseFailure_titled(message) ==
    [error |-> TRUE, markdown |-> message, title |-> message, message |-> message]

ParseFailure(message) ==
    [error |-> TRUE, markdown |-> message, title |-> None, message |-> message]

parse_html(html, source_url) ==
    IF ~html.article
    THEN ParseFailure("Error: No article found on the page.")
    ELSE ParseSuccess(<<html.title, source_url, html.body>>, html.title)

(***************************************************************************)
(* State                                                                   *)
(***************************************************************************)
VARIABLES
    fn,           \* which orchestrator runs: "fetch_all" or "scrape_markdown_all"
    urls,         \* the input list
    concurrency,  \* the concurrency argument
    callback,     \* "none" (no progress_callback), "ok" (one that returns),
                  \* "mutating" (one that writes into the dict it is given) or
                  \* one that raises in its first or in its second call
    opc,          \* position of the orchestrator coroutine
    tpc,          \* position of each task _one(urls[i])
    semValue,     \* asyncio.Semaphore._value
    semWaiters,   \* asyncio.Semaphore._waiters (task indices, FIFO)
    completed,    \* the nonlocal counter
    stats,        \* the nonlocal stats dict
    taskResult,   \* what each finished task returned
    finishOrder,  \* task indices in the order they finished
    cbCalls,      \* the arguments of every progress_callback call so far
    held,         \* the dict the callback got in each call, as it is now
    result,       \* the list the orchestrator returned
    \* -- the transport cache (CacheSpec) --
    default_ttl_seconds,  \* CachedRequestSender.default_ttl_seconds
    store,        \* the rows of table http_cache
    now,          \* time.time()
    pending,      \* the bag of calls suspended in inner.request
    last,         \* what the latest step of a call did: returned a cached
                  \* response, went on to the transport (and why), returned
                  \* the transport's response, or raised
    \* -- the fingerprint (KeySpec) --
    keyArgs,      \* the arguments of two _stable_key calls
    keyOut,       \* the fingerprints computed so far
    \* -- the safety gate (GateSpec) --
    gateUrl,      \* the argument of one is_safe_url call
    gateOut,      \* what the call returned
    \* -- the pagination client (ExplorerSpec) --
    base_url,     \* MediumExplorer.base_url
    max_retries,  \* MediumExplorer.max_retries
    feed,         \* the bodies the endpoint answers with, in order
    epc,          \* position of get_articles_by_category
    cursor,       \* its local cursor
    results,      \* its local results
    nqueries,     \* how many times it has called _post_graphql
    served,       \* how many bodies the endpoint has answered with
    wire,         \* the request that is at the transport, if one is
    attempt,      \* attempt of the running _post_graphql call
    slept,        \* the time.sleep arguments of the running _post_graphql call
    errors,       \* the exceptions of its failed attempts
    raised,       \* the exception that left the call, if one did
    \* -- the converter (ParseSpec) --
    pdoc,         \* the page given to parse_html
    pout,         \* the results of the parse_html calls made on it so far
    pfault,       \* the exception the page makes the pipeline raise, if any
    pexc,         \* the exceptions that left parse_html
    tagFeed,      \* two calls on one explorer: the feed the endpoint has per tag
    calls,        \* and each call's position, arguments and locals
    flines,       \* the lines that enter the boilerplate filter
    fkept,        \* the lines it keeps, once it ran
    \* -- the web jobs (JobSpec) --
    jobs,         \* the rows of table jobs, in the order of their insertion
    workers       \* per job: where its handler and its worker are

ovars == <<fn, urls, concurrency, callback, opc, tpc, semValue, semWaiters,
           completed, stats, taskResult, finishOrder, cbCalls, held, result>>
cvars == <<default_ttl_seconds, store, now, pending, last>>
kvars == <<keyArgs, keyOut>>
gvars == <<gateUrl, gateOut>>
\* the components added after the first three, and what each of them leaves
\* alone
evars == <<base_url, max_retries, feed, epc, cursor, results, nqueries, served,
           wire, attempt, slept, errors, raised>>
pvars == <<pdoc, pout, pfault, pexc>>
dvars == <<tagFeed, calls>>
fvars == <<flines, fkept>>
jvars == <<jobs, workers>>
xvars == <<gvars, evars, pvars, dvars, fvars, jvars>>
gateRest == <<ovars, cvars, kvars, evars, pvars, dvars, fvars, jvars>>
explorerRest == <<ovars, cvars, kvars, gvars, pvars, dvars, fvars, jvars>>
parseRest == <<ovars, cvars, kvars, gvars, evars, dvars, fvars, jvars>>
jobRest == <<ovars, cvars, kvars, gvars, evars, pvars, dvars, fvars>>
vars == <<ovars, cvars, kvars, xvars>>

N == Len(urls)
Tasks == 1..N

(***************************************************************************)
(* asyncio.Semaphore                                                       *)
(***************************************************************************)
\* a gate that never closes
locked_open(value, waiters) == FALSE

\* Semaphore.locked(): no free slot, or somebody is queued already
locked(value, waiters) == value = 0 \/ waiters # <<>>

\* the first waiter whose future is not done yet (0 when there is none)
FirstPending(waiters, pcs) ==
    LET idx == {k \in 1..Len(waiters) : pcs[waiters[k]] = "waiting"}
    IN  IF idx = {} THEN 0
        ELSE waiters[CHOOSE k \in idx : \A m \in idx : k <= m]

\* Semaphore._wake_up_next() on [value, waiters, pcs]
wake_up_next(s) ==
    LET w == FirstPending(s.waiters, s.pcs)
    IN  IF w = 0 THEN s
        ELSE [s EXCEPT !.value = @ - 1, !.pcs[w] = "woken"]

\* Semaphore.release()
release(s) == wake_up_next([s EXCEPT !.value = @ + 1])

(***************************************************************************)
(* Outcome records of a task                                               *)
(***************************************************************************)
InitStats(f) ==
    IF f = "fetch_all"
    THEN [success |-> 0, failed |-> 0, current_url |-> ""]
    ELSE [success |-> 0, failed |-> 0, parse_failed |-> 0, current_url |-> ""]

\* the body of the try block after sender.fetch returned resp
OnResponse(f, resp) ==
    IF f = "fetch_all"
    THEN [result |-> [url |-> resp.url, ok |-> TRUE, status_code |-> resp.status_code,
                      headers |-> resp.headers, text |-> resp.text],
          counter |-> "success"]
    ELSE LET parsed == parse_html(resp.text, resp.url)
         IN  IF parsed.error
             THEN [result |-> [url |-> resp.url, ok |-> FALSE,
                               error |-> IF parsed.message # None /\ parsed.message # ""
                                         THEN parsed.message ELSE "parse failed"],
                   counter |-> "parse_failed"]
             ELSE [result |-> [url |-> resp.url, ok |-> TRUE, title |-> parsed.title,
                               markdown |-> parsed.markdown],
                   counter |-> "success"]

\* an except clause that does not match the exception: it propagates
OnException_uncaught(url, exc) ==
    [raised |-> TRUE,
     result |-> [url |-> url, ok |-> FALSE, error |-> exc],
     counter |-> "failed"]

\* the except branch: the exception becomes a failure record
OnException(url, exc) ==
    [raised |-> FALSE,
     result |-> [url |-> url, ok |-> FALSE, error |-> exc],
     counter |-> "failed"]

\* a parse failure counted as a fetch failure
Bump_merged(st, counter) ==
    CASE counter = "success" -> [st EXCEPT !.success = @ + 1]
      [] OTHER -> [st EXCEPT !.failed = @ + 1]

\* stats[counter] += 1
Bump(st, counter) ==
    CASE counter = "success" -> [st EXCEPT !.success = @ + 1]
      [] counter = "failed" -> [st EXCEPT !.failed = @ + 1]
      [] counter = "parse_failed" -> [st EXCEPT !.parse_failed = @ + 1]

\* the dict object given to the callback when it is stats itself
handed_alias(st) == [ref |-> "stats", value |-> st]

\* stats.copy(): a new dict with the items of stats
handed(st) == [ref |-> "copy", value |-> st]

\* what a callback that writes into its argument leaves in it
Scribble(st) == [st EXCEPT !.failed = -1]

\* the dict a callback of kind cb leaves behind
AfterCallback(cb, st) == IF cb = "mutating" THEN Scribble(st) ELSE st

\* a write to the dict stats is seen through every reference to it
Sync(h, st) ==
    [k \in 1..Len(h) |-> IF h[k].ref = "stats" THEN [h[k] EXCEPT !.value = st]
                         ELSE h[k]]

\* the progress_callback call with the dict dct: stats after it, and the
\* dicts the callback holds
Report(cb, h, st, dct) ==
    LET seen == AfterCallback(cb, dct.value)
        st2  == IF dct.ref = "stats" THEN seen ELSE st
    IN  [stats |-> st2, held |-> Append(Sync(h, st2), [dct EXCEPT !.value = seen])]

\* the callbacks that raise, and whether cb raises in its k-th call
RaisingCallbacks == {"raises_1st", "raises_2nd"}
raises(cb, k) == (cb = "raises_1st" /\ k = 1) \/ (cb = "raises_2nd" /\ k = 2)

\* a report made before `completed += 1`
CbCall_early(c, total, st) ==
    [completed |-> IF c > 0 THEN c - 1 ELSE 0, total |-> total,
     percentage |-> IF total = 0 THEN <<0, 1>> ELSE <<c * 100, total>>,
     stats |-> st]

\* one progress_callback(completed, total, percentage, stats.copy()) call
CbCall(c, total, st) ==
    [completed |-> c, total |-> total,
     percentage |-> IF total = 0 THEN <<0, 1>> ELSE <<c * 100, total>>,
     stats |-> st]


(***************************************************************************)
(* The fingerprint _stable_key.  Text is a sequence of code points, bytes   *)
(* a sequence of byte values.                                              *)
(***************************************************************************)
\* str.upper() on ASCII text
upper(text) ==
    [i \in 1..Len(text) |-> IF text[i] \in 97..122 THEN text[i] - 32 ELSE text[i]]

\* bytes.decode("utf-8", errors="ignore"): one- and two-byte sequences are
\* decoded, a byte that starts no valid sequence is dropped
RECURSIVE decode_ignore(_)
decode_ignore(b) ==
    IF b = <<>> THEN <<>>
    ELSE IF b[1] < 128 THEN <<b[1]>> \o decode_ignore(Tail(b))
    ELSE IF b[1] \in 194..223 /\ Len(b) >= 2 /\ b[2] \in 128..191
         THEN <<(b[1] - 192) * 64 + (b[2] - 128)>> \o decode_ignore(Tail(Tail(b)))
    ELSE decode_ignore(Tail(b))

\* request bodies: data is None, a str or bytes; json is None, a str or an int
DNone == [t |-> "none", v |-> <<>>]
DStr(text) == [t |-> "str", v |-> text]
DBytes(b) == [t |-> "bytes", v |-> b]
JNone == [t |-> "none", v |-> <<>>]
JStr(text) == [t |-> "str", v |-> text]
JInt(n) == [t |-> "int", v |-> <<n>>]

\* json.dumps(..., ensure_ascii=False) of a str: quotes and backslashes are
\* escaped, everything else is kept
RECURSIVE json_escape(_)
json_escape(text) ==
    IF text = <<>> THEN <<>>
    ELSE (IF text[1] \in {34, 92} THEN <<92, text[1]>> ELSE <<text[1]>>)
         \o json_escape(Tail(text))

\* json.dumps of None, a str or a one-digit int
json_dumps(x) ==
    CASE x.t = "none" -> <<110, 117, 108, 108>>
      [] x.t = "str" -> <<34>> \o json_escape(x.v) \o <<34>>
      [] x.t = "int" -> <<48 + x.v[1]>>

\* hashlib.sha256(raw).hexdigest(), taken as collision-free
sha256(raw) == [sha256 |-> raw]

\* a fingerprint that also covers the headers
stable_key_with_headers(method, url, headers, json_body, data_body) ==
    sha256([method |-> json_dumps(JStr(upper(method))),
            url |-> url,
            headers |-> headers,
            json |-> json_dumps(json_body),
            data |-> json_dumps(IF data_body.t = "bytes"
                                THEN DStr(decode_ignore(data_body.v))
                                ELSE data_body)])

\* _stable_key: raw is the JSON object with the sorted keys data, json,
\* method, url; it is kept as the record of its four serialized members
stable_key(method, url, headers, json_body, data_body) ==
    sha256([method |-> json_dumps(JStr(upper(method))),
            url |-> url,
            json |-> json_dumps(json_body),
            data |-> json_dumps(IF data_body.t = "bytes"
                                THEN DStr(decode_ignore(data_body.v))
                                ELSE data_body)])

Request(method, url, headers, json_body, data_body) ==
    [method |-> method, url |-> url, headers |-> headers,
     json |-> json_body, data |-> data_body]

KeyOf(r) == stable_key(r.method, r.url, r.headers, r.json, r.data)

\* "GET", "get", "POST"
MGET == <<71, 69, 84>>
Mget == <<103, 101, 116>>
MPOST == <<80, 79, 83, 84>>

UrlGraphql == MkUrl("https", <<"medium.com">>, "/_/graphql")

UaChrome == Some([user_agent |-> "chrome"])
UaEdge == Some([user_agent |-> "edge"])

\* the arguments the fingerprint is tried on
KeyMethods == {MGET, Mget, MPOST}
KeyUrls == {UrlGood, UrlGraphql}
KeyHeaders == {Nothing, UaChrome}
KeyJsonBodies == {JNone, JStr(<<49>>), JInt(1)}
KeyDataBodies ==
    {DNone, DStr(<<>>), DStr(<<97>>), DStr(<<233>>), DStr(<<34>>),
     DBytes(<<>>), DBytes(<<195, 169>>), DBytes(<<255>>), DBytes(<<97, 255>>)}

KeyRequests ==
    {Request(m, u, h, j, d) : m \in KeyMethods, u \in KeyUrls, h \in KeyHeaders,
                              j \in KeyJsonBodies, d \in KeyDataBodies}

KeyIdle ==
    /\ keyArgs = <<>>
    /\ keyOut = <<>>

KeyInit ==
    /\ keyArgs \in {<<a, b>> : a \in KeyRequests, b \in KeyRequests}
    /\ keyOut = <<>>

\* one call of _stable_key, on the next of the two argument lists
ComputeKey ==
    /\ Len(keyOut) < Len(keyArgs)
    /\ keyOut' = Append(keyOut, KeyOf(keyArgs[Len(keyOut) + 1]))
    /\ UNCHANGED <<keyArgs, ovars, cvars, xvars>>


(***************************************************************************)
(* SQLiteCacheBackend: the table http_cache as a set of rows               *)
(***************************************************************************)
\* json.dumps(response.headers or {}) and json.loads of it
dumps_headers(headers) ==
    [json |-> IF headers = Nothing \/ headers = Some(<<>>) THEN <<>> ELSE headers[1]]

\* the except branch of the decoding in get: an empty dict
loads_headers_fallback(headers_json) == Some(<<>>)

loads_headers(headers_json) == Some(headers_json.json)

\* SELECT ... WHERE cache_key = ?
Select(rows, cache_key) == {r \in rows : r.cache_key = cache_key}

\* DELETE FROM http_cache WHERE cache_key = ?
cache_delete(rows, cache_key) == {r \in rows : r.cache_key # cache_key}

\* an INSERT into a table without a primary key
Replace_insert(rows, row) == rows \cup {row}

\* REPLACE INTO http_cache: cache_key is the primary key
Replace(rows, row) == {r \in rows : r.cache_key # row.cache_key} \cup {row}

\* the expiry test of get
Expired(row, t) == row.ttl_seconds # Nothing /\ (t - row.created_at) > row.ttl_seconds[1]

\* a get that misses on an expired row but leaves it in the table
cache_get_no_purge(rows, cache_key, t) ==
    IF Select(rows, cache_key) = {} THEN [rows |-> rows, hit |-> FALSE, why |-> "absent"]
    ELSE LET row == CHOOSE r \in Select(rows, cache_key) : TRUE
         IN  IF Expired(row, t)
             THEN [rows |-> rows, hit |-> FALSE, why |-> "expired"]
             ELSE [rows |-> rows, hit |-> TRUE,
                   resp |-> HttpResponse(row.url, row.status_code,
                                         loads_headers(row.headers), row.body)]

\* a get that never finds anything
cache_get_blind(rows, cache_key, t) == [rows |-> rows, hit |-> FALSE, why |-> "absent"]

\* SQLiteCacheBackend.get at time t: the table afterwards and the result
cache_get(rows, cache_key, t) ==
    IF Select(rows, cache_key) = {} THEN [rows |-> rows, hit |-> FALSE, why |-> "absent"]
    ELSE LET row == CHOOSE r \in Select(rows, cache_key) : TRUE
         IN  IF Expired(row, t)
             THEN [rows |-> cache_delete(rows, cache_key), hit |-> FALSE,
                   why |-> "expired"]
             ELSE [rows |-> rows, hit |-> TRUE,
                   resp |-> HttpResponse(row.url, row.status_code,
                                         loads_headers(row.headers), row.body)]

\* SQLiteCacheBackend.set at time t
cache_set(rows, cache_key, response, ttl_seconds, t) ==
    IF response.status_code # 200 THEN rows
    ELSE Replace(rows, [cache_key |-> cache_key,
                        url |-> response.url,
                        status_code |-> response.status_code,
                        headers |-> dumps_headers(response.headers),
                        body |-> response.text,
                        created_at |-> t,
                        ttl_seconds |-> ttl_seconds])

(***************************************************************************)
(* CachedRequestSender.request                                             *)
(***************************************************************************)
MaxCallers == 2
MaxTime == 2

\* the requests sent through the cache: two GETs that differ in the case of
\* the method and in the headers, and a POST
CacheRequests ==
    {Request(MGET, UrlGood, UaChrome, JNone, DNone),
     Request(Mget, UrlGood, UaEdge, JNone, DNone),
     Request(MPOST, UrlGraphql, UaChrome, JNone, DStr(<<97>>))}

\* the ttl_seconds argument of a request
RequestTtls == {Nothing, Some(0)}

\* what the inner transport may answer to a request for url
InnerResponses(url) ==
    {HttpResponse(url, 200, CtHtml, "v1"),
     HttpResponse(url, 200, Some(<<>>), "v2"),
     HttpResponse(url, 404, CtHtml, "not found")}

\* a write-back that stores whatever came back
write_back_any(rows, cache_key, resp, ttl_seconds, t) ==
    Replace(rows, [cache_key |-> cache_key,
                   url |-> resp.url,
                   status_code |-> resp.status_code,
                   headers |-> dumps_headers(resp.headers),
                   body |-> resp.text,
                   created_at |-> t,
                   ttl_seconds |-> IF ttl_seconds # Nothing THEN ttl_seconds
                                   ELSE default_ttl_seconds])

\* a write-back with `ttl_seconds or self.default_ttl_seconds`
write_back_truthy(rows, cache_key, resp, ttl_seconds, t) ==
    IF resp.status_code = 200
    THEN cache_set(rows, cache_key, resp,
                   IF ttl_seconds # Nothing /\ ttl_seconds # Some(0)
                   THEN ttl_seconds ELSE default_ttl_seconds, t)
    ELSE rows

\* the try block after inner.request returned
write_back(rows, cache_key, resp, ttl_seconds, t) ==
    IF resp.status_code = 200
    THEN cache_set(rows, cache_key, resp,
                   IF ttl_seconds # Nothing THEN ttl_seconds ELSE default_ttl_seconds, t)
    ELSE rows

\* the sender before any request (as the other specifications see it)
CacheIdle ==
    /\ default_ttl_seconds = Nothing
    /\ store = {}
    /\ now = 0
    /\ pending = EmptyBag
    /\ last = [kind |-> "none"]

CacheInit ==
    /\ default_ttl_seconds \in {Nothing, Some(1)}
    /\ store = {}
    /\ now = 0
    /\ pending = EmptyBag
    /\ last = [kind |-> "none"]

\* a call suspended in inner.request, with the locals it still needs
Call(cache_key, url, ttl_seconds) ==
    [cache_key |-> cache_key, url |-> url, ttl_seconds |-> ttl_seconds]

\* a lookup that does not look at bypass_cache
lookup_always(rows, cache_key, bypass_cache, t) == cache_get(rows, cache_key, t)

\* `if not bypass_cache: cached = self.cache.get(cache_key)`
lookup(rows, cache_key, bypass_cache, t) ==
    IF bypass_cache THEN [rows |-> rows, hit |-> FALSE, why |-> "bypass"]
    ELSE cache_get(rows, cache_key, t)

\* a sender that joins a call to one already in flight for the same key
suspend_coalesced(flying, call) ==
    IF \E c \in BagToSet(flying) : c.cache_key = call.cache_key THEN flying
    ELSE flying (+) SetToBag({call})

\* `resp = await self.inner.request(...)`: the call goes to the transport on
\* its own, whatever is in flight already
suspend(flying, call) == flying (+) SetToBag({call})

\* request(...) up to its return from the cache or its suspension in
\* inner.request
CRequest(r, ttl_seconds, bypass_cache) ==
    /\ BagCardinality(pending) < MaxCallers
    /\ LET cache_key == KeyOf(r)
           cached == lookup(store, cache_key, bypass_cache, now)
       IN  /\ store' = cached.rows
           /\ IF cached.hit
              THEN /\ last' = [kind |-> "hit", cache_key |-> cache_key,
                                bypass |-> bypass_cache, resp |-> cached.resp]
                   /\ UNCHANGED pending
              ELSE /\ last' = [kind |-> "dispatch", cache_key |-> cache_key,
                                bypass |-> bypass_cache, why |-> cached.why]
                   /\ pending' = suspend(pending, Call(cache_key, r.url, ttl_seconds))
    /\ UNCHANGED <<default_ttl_seconds, now, ovars, kvars, xvars>>

\* inner.request returns resp to call: write back and return
CRespond(call, resp) ==
    /\ BagIn(call, pending)
    /\ resp \in InnerResponses(call.url)
    /\ store' = write_back(store, call.cache_key, resp, call.ttl_seconds, now)
    /\ last' = [kind |-> "response", cache_key |-> call.cache_key, resp |-> resp]
    /\ pending' = pending (-) SetToBag({call})
    /\ UNCHANGED <<default_ttl_seconds, now, ovars, kvars, xvars>>

\* what cache.set can raise (sqlite3: the database is locked, the disk is
\* full)
SetExceptions == {"OperationalError"}

\* a sender that lets the exception of cache.set out
on_set_error_raise(resp, exc) == [kind |-> "raise", exc |-> exc]

\* `except Exception: pass`, then `return resp`
on_set_error(resp, exc) == [kind |-> "set_failed", resp |-> resp]

\* inner.request returns resp to call and cache.set raises exc: execute
\* raised and nothing was written, or commit raised and the connection
\* still reads the row it wrote
CRespondSetFails(call, resp, exc) ==
    /\ BagIn(call, pending)
    /\ resp \in InnerResponses(call.url)
    /\ resp.status_code = 200
    /\ exc \in SetExceptions
    /\ store' \in {store, write_back(store, call.cache_key, resp, call.ttl_seconds, now)}
    /\ LET out == on_set_error(resp, exc)
       IN  last' = IF out.kind = "raise"
                   THEN [kind |-> out.kind, cache_key |-> call.cache_key,
                         exc |-> out.exc, inner |-> resp, set_error |-> exc]
                   ELSE [kind |-> out.kind, cache_key |-> call.cache_key,
                         resp |-> out.resp, inner |-> resp, set_error |-> exc]
    /\ pending' = pending (-) SetToBag({call})
    /\ UNCHANGED <<default_ttl_seconds, now, ovars, kvars, xvars>>

\* what inner.request can raise (requests: a connection error, or the
\* HTTPError of raise_for_status)
InnerExceptions == {"ConnectionError", "HTTPError"}

\* a sender that drops the key's row when the transport fails
CRaise_invalidate(call, exc) ==
    /\ BagIn(call, pending)
    /\ exc \in InnerExceptions
    /\ store' = cache_delete(store, call.cache_key)
    /\ last' = [kind |-> "raise", cache_key |-> call.cache_key, exc |-> exc]
    /\ pending' = pending (-) SetToBag({call})
    /\ UNCHANGED <<default_ttl_seconds, now, ovars, kvars, xvars>>

\* inner.request raises exc in call: the await stands outside every try, so
\* the exception leaves request at once
CRaise(call, exc) ==
    /\ BagIn(call, pending)
    /\ exc \in InnerExceptions
    /\ last' = [kind |-> "raise", cache_key |-> call.cache_key, exc |-> exc]
    /\ pending' = pending (-) SetToBag({call})
    /\ UNCHANGED <<default_ttl_seconds, store, now, ovars, kvars, xvars>>

\* time passes
Tick ==
    /\ now < MaxTime
    /\ now' = now + 1
    /\ UNCHANGED <<default_ttl_seconds, store, pending, last, ovars, kvars, xvars>>

(***************************************************************************)
(* The safety gate on its own: one is_safe_url call on one URL.  The netloc *)
(* is a sequence of chunks of host text, none of which has medium.com as a *)
(* proper part, so that the chunked str.endswith above is exact.           *)
(***************************************************************************)
MaxChunks == 2

GateSchemes == {"https", "http", "ftp", ""}
GateChunks == {"blog.", "evil", "user@", "medium.com", ".org", ":8080"}
GateUrls ==
    {MkUrl(sch, nl, "/p") : sch \in GateSchemes, nl \in SeqsUpTo(GateChunks, MaxChunks)}

GateIdle ==
    /\ gateUrl = MkUrl("", <<>>, "")
    /\ gateOut = Nothing

GateInit ==
    /\ gateUrl \in GateUrls
    /\ gateOut = Nothing

\* the call runs and returns its verdict
CheckUrl ==
    /\ gateOut = Nothing
    /\ gateOut' = Some(is_safe_url(gateUrl))
    /\ UNCHANGED <<gateUrl, gateRest>>

(***************************************************************************)
(* The pagination client.  A response body is the text json.loads reads:   *)
(* kind "list" or "dict" for a JSON array or object, kind "text" for text  *)
(* that is not JSON.  A JSON object is a record, null is the empty         *)
(* function, and a key is present when it is in the DOMAIN.                *)
(***************************************************************************)
MaxPages == 2
MaxRetries == 3

retry_backoff_sec == 75  \* hundredths of a second

Category == "example"

HasKey(obj, key) == key \in DOMAIN obj

JNull == <<>>

\* the edges of the feed
EdgeA == [cursor |-> "c1",
          node |-> [id |-> "p1", title |-> "T1", creator |-> [name |-> "ann"],
                    firstPublishedAt |-> 172805000,
                    mediumUrl |-> "https://medium.com/p1"]]
EdgeB == [cursor |-> "c2",
          node |-> [id |-> "p2", title |-> "T2", creator |-> JNull,
                    mediumUrl |-> "https://medium.com/p2"]]
EdgeC == [cursor |-> "c3", node |-> [id |-> "p3"]]
EdgeNoNode == [cursor |-> "c4"]
EdgeNoId == [cursor |-> "c5", node |-> [title |-> "T5"]]
EdgeNullCursor == [cursor |-> None, node |-> [id |-> "p6", title |-> "T6"]]
EdgeNoCursor == [node |-> [id |-> "p7", title |-> "T7"]]

\* the element of the array for one operation
FeedResult(edges) ==
    [data |-> [tagFromSlug |-> [sortedFeed |-> [edges |-> edges]]]]

JList(items) == [kind |-> "list", items |-> items]
JDict(fields) == [kind |-> "dict", fields |-> fields]
NotJson == [kind |-> "text"]

Page(edges) == JList(<<FeedResult(edges)>>)

EmptyPage == Page(<<>>)

\* bodies after which the client can ask for another one
ContinuingBodies ==
    {Page(<<EdgeA, EdgeB>>), Page(<<EdgeC>>),
     Page(<<EdgeA, EdgeNoNode, EdgeB>>), Page(<<EdgeNoId, EdgeC>>),
     Page(<<EdgeA, EdgeNullCursor>>),
     JList(<<FeedResult(<<EdgeC>>), FeedResult(<<EdgeA>>)>>),
     NotJson}

\* bodies after which it asks for nothing more
LastBodies ==
    {EmptyPage,
     Page(<<EdgeA, EdgeNoCursor>>),
     JDict([errors |-> "x"]),
     JList(<<>>),
     JList(<<[errors |-> "x"]>>),
     JList(<<[data |-> JNull]>>),
     JList(<<[data |-> [tagFromSlug |-> JNull]]>>),
     JList(<<[data |-> [tagFromSlug |-> [id |-> "t"]]]>>),
     JList(<<[data |-> [tagFromSlug |-> [sortedFeed |-> [pageInfo |-> "i"]]]]>>)}

Bodies == ContinuingBodies \cup LastBodies

\* the feeds: at most MaxPages bodies; what follows a body of LastBodies is
\* never asked for, so such a body stands last
Feeds ==
    {pre \o post : pre \in SeqsUpTo(ContinuingBodies, MaxPages - 1),
                   post \in {<<>>} \cup {<<b>> : b \in Bodies}}

\* the endpoint's answer to query number k: an exhausted feed has no more
\* edges
BodyOf(k) == IF k <= Len(feed) THEN feed[k] ELSE EmptyPage

\* a decoder that hands text that is not JSON on as it is
json_loads_silent(body) == [ok |-> TRUE, data |-> body]

\* json.loads(resp.text)
json_loads(body) ==
    IF body.kind = "text" THEN [ok |-> FALSE] ELSE [ok |-> TRUE, data |-> body]

\* data[0]["data"]["tagFromSlug"]["sortedFeed"]["edges"]
feed_edges(data) ==
    IF data.kind # "list" \/ Len(data.items) = 0
    THEN [raises |-> TRUE]
    ELSE LET first == data.items[1] IN
         IF ~HasKey(first, "data") THEN [raises |-> TRUE]
         ELSE IF ~HasKey(first.data, "tagFromSlug") THEN [raises |-> TRUE]
         ELSE IF ~HasKey(first.data.tagFromSlug, "sortedFeed") THEN [raises |-> TRUE]
         ELSE IF ~HasKey(first.data.tagFromSlug.sortedFeed, "edges")
              THEN [raises |-> TRUE]
         ELSE [raises |-> FALSE, edges |-> first.data.tagFromSlug.sortedFeed.edges]

\* dict.get(key, default)
Get(obj, key, default) == IF HasKey(obj, key) THEN obj[key] ELSE default

\* x or ""
OrEmpty(x) == IF x = None \/ x = "" THEN "" ELSE x

\* a first try block that goes on when the last edge has no cursor
read_page_lenient(data, cur) ==
    LET got == feed_edges(data) IN
    IF got.raises THEN [next |-> "break", cursor |-> "", edges |-> <<>>]
    ELSE IF Len(got.edges) = 0
         THEN [next |-> "break", cursor |-> cur, edges |-> <<>>]
    ELSE [next |-> "page",
          cursor |-> OrEmpty(Get(got.edges[Len(got.edges)], "cursor", "")),
          edges |-> got.edges]

\* the first try block of the loop body: break, or the page's edges and the
\* next cursor
read_page(data, cur) ==
    LET got == feed_edges(data) IN
    IF got.raises THEN [next |-> "break", cursor |-> "", edges |-> <<>>]
    ELSE IF Len(got.edges) = 0
         THEN [next |-> "break", cursor |-> cur, edges |-> <<>>]
    ELSE IF ~HasKey(got.edges[Len(got.edges)], "cursor")
         THEN [next |-> "break", cursor |-> "", edges |-> <<>>]
    ELSE [next |-> "page",
          cursor |-> OrEmpty(got.edges[Len(got.edges)].cursor),
          edges |-> got.edges]

\* the date as the number of the day since the epoch
timestamp_to_date(timestamp) ==
    IF timestamp = 0 THEN Nothing ELSE Some(timestamp \div 86400)

Article(post_id, title, author, date, category, url, content) ==
    [post_id |-> post_id, title |-> title, author |-> author, date |-> date,
     category |-> category, url |-> url, content |-> content]

\* the Article built from a node that has an id
ArticleOf(node, category) ==
    Article(node.id,
            Get(node, "title", ""),
            Get(Get(node, "creator", JNull), "name", ""),
            timestamp_to_date(IF Get(node, "firstPublishedAt", 0) # 0
                              THEN node.firstPublishedAt \div 1000 ELSE 0),
            category,
            Get(node, "mediumUrl", ""),
            "")

\* item["node"] and node["id"] do not raise
WellFormed(item) == HasKey(item, "node") /\ HasKey(item.node, "id")

\* a loop that leaves out the malformed item and goes on
RECURSIVE collect_per_item(_, _, _)
collect_per_item(acc, edges, category) ==
    IF Len(edges) = 0 THEN acc
    ELSE IF ~WellFormed(Head(edges))
         THEN collect_per_item(acc, Tail(edges), category)
         ELSE collect_per_item(Append(acc, ArticleOf(Head(edges).node, category)),
                               Tail(edges), category)

\* the second try block: the for loop stands inside the try, so the first
\* item that raises ends the loop
RECURSIVE collect(_, _, _)
collect(acc, edges, category) ==
    IF Len(edges) = 0 THEN acc
    ELSE IF ~WellFormed(Head(edges)) THEN acc
         ELSE collect(Append(acc, ArticleOf(Head(edges).node, category)),
                      Tail(edges), category)

\* MediumExplorer(sender, base_url=...): the default origin, and one that is
\* not the platform's
BaseUrls == {MkUrl("https", <<"medium.com">>, ""), MkUrl("http", <<"localhost">>, "")}

\* urljoin(self.base_url + "/", TAG_GRAPHQL_PATH.lstrip("/"))
GraphqlUrl(base) == MkUrl(base.scheme, base.netloc, "/_/graphql")

\* what sender.request can raise
TransportExceptions == {"ConnectionError", "Timeout"}

ExplorerIdle ==
    /\ base_url = MkUrl("https", <<"medium.com">>, "")
    /\ max_retries = 0
    /\ feed = <<>>
    /\ epc = "idle"
    /\ cursor = ""
    /\ results = <<>>
    /\ nqueries = 0
    /\ served = 0
    /\ wire = Nothing
    /\ attempt = 0
    /\ slept = <<>>
    /\ errors = <<>>
    /\ raised = None

ExplorerInit ==
    /\ base_url \in BaseUrls
    /\ max_retries \in 0..MaxRetries
    /\ feed \in Feeds
    /\ epc = "idle"
    /\ cursor = ""
    /\ results = <<>>
    /\ nqueries = 0
    /\ served = 0
    /\ wire = Nothing
    /\ attempt = 0
    /\ slept = <<>>
    /\ errors = <<>>
    /\ raised = None

\* _post_graphql(operations) up to its first await: with no attempt to make
\* it raises RuntimeError, else it sends the operations
post_graphql(after) ==
    /\ nqueries' = nqueries + 1
    /\ slept' = <<>>
    /\ errors' = <<>>
    /\ IF max_retries >= 1
       THEN /\ attempt' = 1
            /\ wire' = Some([method |-> "POST", url |-> GraphqlUrl(base_url),
                             after |-> after])
            /\ epc' = "request"
            /\ UNCHANGED raised
       ELSE /\ attempt' = 0
            /\ wire' = Nothing
            /\ epc' = "raised"
            /\ raised' = "RuntimeError"

\* a handler that sleeps the same time after every failed attempt
on_exception_flat(exc) ==
    /\ errors' = Append(errors, exc)
    /\ IF attempt < max_retries
       THEN /\ slept' = Append(slept, retry_backoff_sec)
            /\ attempt' = attempt + 1
            /\ UNCHANGED <<wire, epc, raised>>
       ELSE /\ wire' = Nothing
            /\ epc' = "raised"
            /\ raised' = exc
            /\ UNCHANGED <<slept, attempt>>
    /\ UNCHANGED <<cursor, results, nqueries>>

\* the except block of _post_graphql: sleep and send again, or raise
on_exception(exc) ==
    /\ errors' = Append(errors, exc)
    /\ IF attempt < max_retries
       THEN /\ slept' = Append(slept, retry_backoff_sec * attempt)
            /\ attempt' = attempt + 1
            /\ UNCHANGED <<wire, epc, raised>>
       ELSE /\ wire' = Nothing
            /\ epc' = "raised"
            /\ raised' = exc
            /\ UNCHANGED <<slept, attempt>>
    /\ UNCHANGED <<cursor, results, nqueries>>

\* get_articles_by_category(category) up to its first await
Start ==
    /\ epc = "idle"
    /\ cursor' = ""
    /\ results' = <<>>
    /\ post_graphql("")
    /\ UNCHANGED <<base_url, max_retries, feed, served, explorerRest>>

\* sender.request returns the endpoint's next body: read the page, then
\* return the results or ask for the next page
Respond ==
    /\ epc = "request"
    /\ served' = served + 1
    /\ LET parsed == json_loads(BodyOf(served + 1)) IN
       IF ~parsed.ok
       THEN on_exception("JSONDecodeError")
       ELSE LET page == read_page(parsed.data, cursor) IN
            /\ cursor' = page.cursor
            /\ IF page.next = "break"
               THEN /\ epc' = "done"
                    /\ wire' = Nothing
                    /\ UNCHANGED <<results, nqueries, attempt, slept, errors, raised>>
               ELSE /\ results' = collect(results, page.edges, Category)
                    /\ post_graphql(page.cursor)
    /\ UNCHANGED <<base_url, max_retries, feed, explorerRest>>

\* sender.request raises exc
Raise(exc) ==
    /\ epc = "request"
    /\ exc \in TransportExceptions
    /\ on_exception(exc)
    /\ UNCHANGED <<base_url, max_retries, feed, served, explorerRest>>

(***************************************************************************)
(* Two get_articles_by_category calls on one explorer, for two tags.  The  *)
(* explorer makes one attempt per query (max_retries = 1).  The endpoint   *)
(* answers a query by its tag and its `after` cursor.                      *)
(***************************************************************************)
CallIds == 1..2

TagOf(c) == IF c = 1 THEN "tag-one" ELSE "tag-two"

\* feeds whose pages end with different cursors
PairFeeds ==
    {<<>>,
     <<Page(<<EdgeA, EdgeB>>)>>,
     <<Page(<<EdgeC>>), Page(<<EdgeA>>)>>,
     <<Page(<<EdgeA, EdgeB>>), Page(<<EdgeC>>)>>,
     <<Page(<<EdgeB, EdgeNoNode, EdgeA>>), Page(<<EdgeC>>)>>}

\* the cursor of the last edge of a page of PairFeeds
EndCursor(body) ==
    LET edges == body.items[1].data.tagFromSlug.sortedFeed.edges
    IN  edges[Len(edges)].cursor

\* the endpoint's answer to a query with the cursor `after`: the first page,
\* the page that follows the one ending with that cursor, or no edges
PageAfter(fd, after) ==
    IF after = "" THEN (IF Len(fd) >= 1 THEN fd[1] ELSE EmptyPage)
    ELSE IF \E k \in 1..(Len(fd) - 1) : EndCursor(fd[k]) = after
         THEN fd[(CHOOSE k \in 1..(Len(fd) - 1) : EndCursor(fd[k]) = after) + 1]
         ELSE EmptyPage

\* cursor and results kept in one place for all the calls
locals_shared(cs, c) == cs[1]

\* cursor and results are locals of the coroutine of call c
locals(cs, c) == cs[c]

CallRecord(pc, tag, after, cur, res) ==
    [pc |-> pc, tag |-> tag, after |-> after, cursor |-> cur, results |-> res]

PairIdle ==
    /\ tagFeed = [c \in CallIds |-> <<>>]
    /\ calls = [c \in CallIds |-> CallRecord("idle", TagOf(c), "", "", <<>>)]

PairInit ==
    /\ tagFeed \in [CallIds -> PairFeeds]
    /\ calls = [c \in CallIds |-> CallRecord("idle", TagOf(c), "", "", <<>>)]

\* call c up to its first await: the first query is on the wire
CallStart(c) ==
    /\ calls[c].pc = "idle"
    /\ calls' = [calls EXCEPT ![c] = CallRecord("request", @.tag, "", "", <<>>)]
    /\ UNCHANGED <<tagFeed, ovars, cvars, kvars, gvars, evars, pvars, fvars, jvars>>

\* the answer to the query of call c arrives: read the page, then return
\* the results or send the next query
CallRespond(c) ==
    /\ calls[c].pc = "request"
    /\ LET mine == locals(calls, c)
           body == PageAfter(tagFeed[c], calls[c].after)
           page == read_page(json_loads(body).data, mine.cursor)
       IN  calls' = [calls EXCEPT ![c] =
                        IF page.next = "break"
                        THEN CallRecord("done", @.tag, @.after, page.cursor, mine.results)
                        ELSE CallRecord("request", @.tag, page.cursor, page.cursor,
                                        collect(mine.results, page.edges, @.tag))]
    /\ UNCHANGED <<tagFeed, ovars, cvars, kvars, gvars, evars, pvars, fvars, jvars>>

\* the query of call c fails: the only attempt is used up, the call raises
CallRaise(c) ==
    /\ calls[c].pc = "request"
    /\ calls' = [calls EXCEPT ![c].pc = "raised"]
    /\ UNCHANGED <<tagFeed, ovars, cvars, kvars, gvars, evars, pvars, fvars, jvars>>

(***************************************************************************)
(* The converter.  Text is a sequence of characters.  A page is what       *)
(* parse_html reads of it: whether it has an <article>, the content of its *)
(* <meta name="title">, the text of the first <h1> of the article, and the *)
(* Markdown the tree-to-text conversion makes of the article.  The texts   *)
(* have no link brackets, so the three passes on links leave them alone.   *)
(***************************************************************************)
MaxLines == 4

NL == "\n"
Space == " "
Backtick == "backtick"
Fence == <<Backtick, Backtick, Backtick>>

\* str.strip(), str.lstrip()
RECURSIVE lstrip(_)
lstrip(text) ==
    IF Len(text) > 0 /\ Head(text) = Space THEN lstrip(Tail(text)) ELSE text

RECURSIVE rstrip(_)
rstrip(text) ==
    IF Len(text) > 0 /\ text[Len(text)] = Space
    THEN rstrip(SubSeq(text, 1, Len(text) - 1)) ELSE text

strip(text) == lstrip(rstrip(text))

\* str.startswith
startswith(text, prefix) ==
    Len(text) >= Len(prefix) /\ SubSeq(text, 1, Len(prefix)) = prefix

\* re.sub(r"[^\w\s-]", "", title): the characters kept
Punctuation == {"!", ":", Backtick}

RECURSIVE drop_punctuation(_)
drop_punctuation(text) ==
    IF Len(text) = 0 THEN <<>>
    ELSE IF Head(text) \in Punctuation THEN drop_punctuation(Tail(text))
         ELSE <<Head(text)>> \o drop_punctuation(Tail(text))

\* re.sub(r"\s+", "-", title)
RECURSIVE hyphenate(_)
hyphenate(text) ==
    IF Len(text) = 0 THEN <<>>
    ELSE IF Head(text) = Space
         THEN <<"-">> \o hyphenate(lstrip(text))
         ELSE <<Head(text)>> \o hyphenate(Tail(text))

normalize_title(title) == hyphenate(drop_punctuation(strip(title)))

\* the values uuid.uuid4() can return
Uuids == {"u-1", "u-2"}

\* title resolution: meta tag, else the h1, else the placeholder with the
\* uuid drawn in this call
resolve_title(meta, h1, uuid) ==
    LET fromMeta == IF meta # Nothing /\ Len(meta[1]) > 0 THEN strip(meta[1]) ELSE <<>>
    IN  normalize_title(
            IF Len(fromMeta) > 0 THEN fromMeta
            ELSE IF h1 # Nothing THEN strip(h1[1])
            ELSE <<"Untitled-Article-Title-", uuid>>)

\* str.split("\n")
RECURSIVE split_lines(_)
split_lines(text) ==
    IF \A i \in 1..Len(text) : text[i] # NL THEN <<text>>
    ELSE LET i == CHOOSE n \in 1..Len(text) :
                      text[n] = NL /\ \A j \in 1..(n - 1) : text[j] # NL
         IN  <<SubSeq(text, 1, i - 1)>> \o split_lines(SubSeq(text, i + 1, Len(text)))

\* "\n".join(lines)
RECURSIVE join_lines(_)
join_lines(lines) ==
    IF Len(lines) = 0 THEN <<>>
    ELSE IF Len(lines) = 1 THEN lines[1]
         ELSE lines[1] \o <<NL>> \o join_lines(Tail(lines))

\* re.sub: a fence after a character that is no newline goes to a new line
RECURSIVE break_before_fence(_)
break_before_fence(text) ==
    IF Len(text) < 4 THEN text
    ELSE IF text[1] # NL /\ SubSeq(text, 2, 4) = Fence
         THEN <<text[1], NL>> \o Fence
              \o break_before_fence(SubSeq(text, 5, Len(text)))
         ELSE <<text[1]>> \o break_before_fence(Tail(text))

\* re.sub: what follows a fence on its line goes to a new line
RECURSIVE break_after_fence(_)
break_after_fence(text) ==
    IF Len(text) < 4 THEN text
    ELSE IF SubSeq(text, 1, 3) = Fence /\ text[4] # NL
         THEN Fence \o <<NL, text[4]>>
              \o break_after_fence(SubSeq(text, 5, Len(text)))
         ELSE <<text[1]>> \o break_after_fence(Tail(text))

\* re.fullmatch: backticks alone, with blanks around them or not
is_fence_line(line) ==
    /\ Len(strip(line)) >= 1
    /\ \A i \in 1..Len(strip(line)) : strip(line)[i] = Backtick

\* the loop that writes every such line as a fence and drops a fence that
\* follows a fence
RECURSIVE normalize_fence_lines(_, _)
normalize_fence_lines(acc, lines) ==
    IF Len(lines) = 0 THEN acc
    ELSE IF is_fence_line(Head(lines))
         THEN IF Len(acc) > 0 /\ acc[Len(acc)] = Fence
              THEN normalize_fence_lines(acc, Tail(lines))
              ELSE normalize_fence_lines(Append(acc, Fence), Tail(lines))
         ELSE normalize_fence_lines(Append(acc, Head(lines)), Tail(lines))

\* the loop with fence_is_open: an empty line before an opening fence and
\* after a closing one
RECURSIVE space_fences(_, _, _)
space_fences(acc, fence_is_open, lines) ==
    IF Len(lines) = 0 THEN acc
    ELSE IF Head(lines) = Fence
         THEN IF ~fence_is_open
              THEN space_fences(
                       (IF Len(acc) > 0 /\ Len(strip(acc[Len(acc)])) # 0
                        THEN Append(acc, <<>>) ELSE acc) \o <<Fence>>,
                       TRUE, Tail(lines))
              ELSE space_fences(acc \o <<Fence, <<>>>>, FALSE, Tail(lines))
         ELSE space_fences(Append(acc, Head(lines)), fence_is_open, Tail(lines))

\* the loop that pops the blank lines at the end
RECURSIVE drop_trailing_blank(_)
drop_trailing_blank(lines) ==
    IF Len(lines) > 0 /\ Len(strip(lines[Len(lines)])) = 0
    THEN drop_trailing_blank(SubSeq(lines, 1, Len(lines) - 1))
    ELSE lines

\* lines[i], list.pop(i) and list.insert(i, x) with Python's indices
At(lines, i) == lines[i + 1]
pop(lines, i) == SubSeq(lines, 1, i) \o SubSeq(lines, i + 2, Len(lines))
insert(lines, i, x) == SubSeq(lines, 1, i) \o <<x>> \o SubSeq(lines, i + 1, Len(lines))

From == <<"F", "r", "o", "m", ":">>

\* while j < len(lines) and lines[j].strip() != fence: j += 1
RECURSIVE scan_to_fence(_, _)
scan_to_fence(lines, j) ==
    IF j < Len(lines) /\ strip(At(lines, j)) # Fence
    THEN scan_to_fence(lines, j + 1) ELSE j

\* while k < len(lines) and lines[k].strip() == "": k += 1
RECURSIVE scan_blank(_, _)
scan_blank(lines, k) ==
    IF k < Len(lines) /\ Len(strip(At(lines, k))) = 0
    THEN scan_blank(lines, k + 1) ELSE k

\* the loop that merges an e-mail header block with the paragraph after it
RECURSIVE merge_email_header(_, _)
merge_email_header(lines, i) ==
    IF ~(i < Len(lines) - 3) THEN lines
    ELSE IF /\ strip(At(lines, i)) = Fence
            /\ i + 1 < Len(lines)
            /\ startswith(lstrip(At(lines, i + 1)), From)
         THEN LET j == scan_to_fence(lines, i + 2) IN
              IF j >= Len(lines) THEN lines
              ELSE LET k == scan_blank(lines, j + 1)
                       m == scan_to_fence(lines, k)
                   IN  IF k < m
                       THEN LET popped == pop(lines, j)
                                gap == j < Len(popped) /\ Len(strip(At(popped, j))) # 0
                                spaced == IF gap THEN insert(popped, j, <<>>) ELSE popped
                                m2 == IF gap THEN m ELSE m - 1
                                closed == IF m2 < Len(spaced) /\ strip(At(spaced, m2)) = Fence
                                          THEN spaced ELSE insert(spaced, m2, Fence)
                            IN  merge_email_header(closed, m2 + 1)
                       ELSE merge_email_header(lines, i + 1)
         ELSE merge_email_header(lines, i + 1)

\* convert_pre: the text of the <pre> element between two fences
convert_pre(code_text) == Fence \o <<NL>> \o code_text \o <<NL>> \o Fence

Backslash == "\\"

\* the characters of the texts that are neither alphanumeric nor whitespace
Symbols == {"$", "*", "-", "!", ":", "·", Backslash, Backtick}

\* re.sub(r"\\([^a-zA-Z0-9\s])", r"\1", raw_markdown)
RECURSIVE unescape(_)
unescape(text) ==
    IF Len(text) = 0 THEN <<>>
    ELSE IF Len(text) >= 2 /\ text[1] = Backslash /\ text[2] \in Symbols
         THEN <<text[2]>> \o unescape(SubSeq(text, 3, Len(text)))
         ELSE <<Head(text)>> \o unescape(Tail(text))

\* the lines the boilerplate filter drops near the top of the text
undesired ==
    {<<"·">>, <<"P", "u", "b", "l", "i", "s", "h", "e", "d", Space, "i", "n">>,
     <<"-", "-">>, <<"1">>, <<"L", "i", "s", "t", "e", "n">>,
     <<"S", "h", "a", "r", "e">>}

\* `if idx < 40`
boilerplate_window == 40

\* a filter that drops the boilerplate lines wherever they stand
drop_boilerplate_all(lines, idx) ==
    SelectSeq(lines, LAMBDA line : strip(line) \notin undesired)

\* the loop over enumerate(lines), from the line of index idx on
RECURSIVE drop_boilerplate(_, _)
drop_boilerplate(lines, idx) ==
    IF Len(lines) = 0 THEN <<>>
    ELSE (IF idx < boilerplate_window /\ strip(Head(lines)) \in undesired
          THEN <<>> ELSE <<Head(lines)>>)
         \o drop_boilerplate(Tail(lines), idx + 1)

\* re.sub: three newlines or more become two
RECURSIVE skip_newlines(_)
skip_newlines(text) ==
    IF Len(text) > 0 /\ Head(text) = NL THEN skip_newlines(Tail(text)) ELSE text

RECURSIVE collapse_blank_lines(_)
collapse_blank_lines(text) ==
    IF Len(text) = 0 THEN <<>>
    ELSE IF Len(text) >= 3 /\ text[1] = NL /\ text[2] = NL /\ text[3] = NL
         THEN <<NL, NL>> \o collapse_blank_lines(skip_newlines(text))
         ELSE <<Head(text)>> \o collapse_blank_lines(Tail(text))

\* the passes on the Markdown from the fences on
normalize_fences(text) ==
    LET broken == break_after_fence(break_before_fence(text))
        normalized_fence_lines == normalize_fence_lines(<<>>, split_lines(broken))
        result_lines == drop_trailing_blank(space_fences(<<>>, FALSE, normalized_fence_lines))
        lines_pp == merge_email_header(split_lines(join_lines(result_lines)), 0)
    IN  collapse_blank_lines(join_lines(lines_pp))

\* parse_html with the value that uuid.uuid4() returns in this call, when it
\* is called
parse_html_with(doc, uuid) ==
    IF ~doc.article
    THEN ParseFailure("Error: No article found on the page.")
    ELSE LET markdown_cleaned == unescape(doc.text)
             filtered == drop_boilerplate(split_lines(markdown_cleaned), 0)
         IN  ParseSuccess(normalize_fences(join_lines(filtered)),
                          resolve_title(doc.meta_title, doc.h1, uuid))

\* an exception raised inside the try block: by BeautifulSoup before the
\* article is looked up or by the pipeline after it, and its str(exc)
NoFault == [stage |-> "none", msg |-> ""]

Faults ==
    {[stage |-> s, msg |-> m] : s \in {"soup", "pipeline"}, m \in {"", "boom"}}

\* no except clause: the exception leaves parse_html
on_parse_exception_uncaught(msg) ==
    [raised |-> TRUE, result |-> ParseFailure(msg)]

\* except Exception as exc: a failure with str(exc), or the fixed message
on_parse_exception(msg) ==
    [raised |-> FALSE,
     result |-> ParseFailure(IF msg = "" THEN "Error parsing the article" ELSE msg)]

\* the try block of parse_html on a page that makes it raise fault
parse_html_try(doc, fault, uuid) ==
    IF fault.stage = "soup" THEN on_parse_exception(fault.msg)
    ELSE IF doc.article /\ fault.stage = "pipeline"
         THEN on_parse_exception(fault.msg)
         ELSE [raised |-> FALSE, result |-> parse_html_with(doc, uuid)]

Doc(article, meta_title, h1, text) ==
    [article |-> article, meta_title |-> meta_title, h1 |-> h1, text |-> text]

\* the lines of the Markdown
LineShapes ==
    {<<>>, <<"a">>, Fence, <<Backtick>>, Fence \o <<Backtick>>,
     <<"a">> \o Fence, Fence \o <<"a">>, From}

Texts == {join_lines(lines) : lines \in SeqsUpTo(LineShapes, MaxLines)}

\* the titles of a page: its meta title and its h1, each present or not
PageTitles ==
    {<<Nothing, Nothing>>,
     <<Nothing, Some(<<"H", Space, "1">>)>>,
     <<Some(<<Space>>), Some(<<"H", Space, "1">>)>>,
     <<Some(<<Space>>), Nothing>>,
     <<Some(<<Space, "M", "y", Space, Space, "T", "!">>), Some(<<"H">>)>>}

\* the text of a <pre> element
PreTexts ==
    {<<"a">>, <<"a", NL, "b">>, <<"a", NL, NL, "b">>, <<"a", NL, NL, NL, "b">>,
     <<"1">>, <<"a", Space, Backslash, "$", "b">>, <<"a", Backslash, "b">>}

\* pages without an article, pages with each kind of title, pages with each
\* text, and pages whose article is one <pre> element
Docs ==
    {Doc(FALSE, Nothing, Nothing, <<>>)}
    \cup {Doc(TRUE, t[1], t[2], <<"a">>) : t \in PageTitles}
    \cup {Doc(TRUE, Nothing, Some(<<"H">>), text) : text \in Texts}
    \cup {Doc(TRUE, Nothing, Some(<<"H">>), convert_pre(code)) : code \in PreTexts}

\* the pages that raise: the page without an article and one page per title
FaultDocs ==
    {Doc(FALSE, Nothing, Nothing, <<>>)}
    \cup {Doc(TRUE, t[1], t[2], <<"a">>) : t \in PageTitles}

ParseInputs ==
    {<<doc, NoFault>> : doc \in Docs}
    \cup {<<doc, fault>> : doc \in FaultDocs, fault \in Faults}

ParseIdle ==
    /\ pdoc = Doc(FALSE, Nothing, Nothing, <<>>)
    /\ pout = <<>>
    /\ pfault = NoFault
    /\ pexc = <<>>

ParseInit ==
    /\ \E input \in ParseInputs : pdoc = input[1] /\ pfault = input[2]
    /\ pout = <<>>
    /\ pexc = <<>>

(***************************************************************************)
(* The boilerplate filter on its own: texts long enough to have lines on   *)
(* both sides of the index 40.                                             *)
(***************************************************************************)
MaxTail == 3

\* the lines around the index 40: boilerplate lines, bare and padded, and
\* lines that only look like them
TailLines ==
    {<<"S", "h", "a", "r", "e">>, <<Space, "-", "-", Space>>, <<"1">>,
     <<"S", "h", "a", "r", "e", "d">>, <<>>}

\* the lines before them: a title, then a boilerplate line or not, then text
HeadLines(n, second) == [i \in 1..n |-> IF i = 2 THEN second ELSE <<"a">>]

FilterInputs ==
    {HeadLines(n, second) \o tail :
        n \in (boilerplate_window - 2)..(boilerplate_window + 1),
        second \in {<<"a">>, <<"L", "i", "s", "t", "e", "n">>},
        tail \in SeqsUpTo(TailLines, MaxTail)}

FilterIdle ==
    /\ flines = <<>>
    /\ fkept = Nothing

\* the web application before any job (as the other specifications see it)
JobIdle ==
    /\ jobs = <<>>
    /\ workers = <<>>

FilterInit ==
    /\ flines \in FilterInputs
    /\ fkept = Nothing

\* the filter runs over the lines
Filter ==
    /\ fkept = Nothing
    /\ fkept' = Some(drop_boilerplate(flines, 0))
    /\ UNCHANGED <<flines, ovars, cvars, kvars, gvars, evars, pvars, dvars, jvars>>

\* one more parse_html call on the page
Convert(uuid) ==
    /\ Len(pout) + Len(pexc) < 2
    /\ LET o == parse_html_try(pdoc, pfault, uuid)
       IN  IF o.raised
           THEN pexc' = Append(pexc, o.result.message) /\ pout' = pout
           ELSE pout' = Append(pout, o.result) /\ pexc' = pexc
    /\ UNCHANGED <<pdoc, pfault, parseRest>>

\* the components that no claim of this part is about, before any call
ExtraIdle ==
    GateIdle /\ ExplorerIdle /\ ParseIdle /\ PairIdle /\ FilterIdle /\ JobIdle

(***************************************************************************)
(* Init: the arguments of one orchestrator call, nothing executed yet      *)
(***************************************************************************)
\* the orchestrator before it is called (as the other specifications see it)
\* the place of a task that has not ended
NoOutcome == [pending |-> TRUE]

OrchIdle ==
    /\ fn = "scrape_markdown_all"
    /\ urls = <<>>
    /\ concurrency = 1
    /\ callback = "none"
    /\ opc = "start"
    /\ tpc = <<>>
    /\ semValue = 0
    /\ semWaiters = <<>>
    /\ completed = 0
    /\ stats = InitStats("scrape_markdown_all")
    /\ taskResult = <<>>
    /\ finishOrder = <<>>
    /\ cbCalls = <<>>
    /\ held = <<>>
    /\ result = <<>>

OrchInit ==
    /\ fn \in {"fetch_all", "scrape_markdown_all"}
    /\ urls \in SeqsUpTo(BatchUrls, MaxUrls)
    /\ concurrency \in 0..MaxConcurrency
    /\ callback \in {"none", "ok", "mutating"}
    /\ opc = "start"
    /\ tpc = [i \in 1..Len(urls) |-> "new"]
    /\ semValue = 0
    /\ semWaiters = <<>>
    /\ completed = 0
    /\ stats = InitStats(fn)
    /\ taskResult = [i \in 1..Len(urls) |-> NoOutcome]
    /\ finishOrder = <<>>
    /\ cbCalls = <<>>
    /\ held = <<>>
    /\ result = <<>>

(***************************************************************************)
(* Actions                                                                 *)
(***************************************************************************)
\* Begin without the initial 0/total report
Begin_silent ==
    /\ opc = "start"
    /\ opc' = "gather"
    /\ semValue' = concurrency
    /\ semWaiters' = <<>>
    /\ completed' = 0
    /\ stats' = InitStats(fn)
    /\ cbCalls' = <<>>
    /\ held' = <<>>
    /\ tpc' = [i \in Tasks |-> "created"]
    /\ UNCHANGED <<cvars, kvars, xvars>>
    /\ UNCHANGED <<fn, urls, concurrency, callback, taskResult, finishOrder, result>>

\* the orchestrator up to and including create_task for every url; it then
\* suspends in gather
Begin ==
    /\ opc = "start"
    /\ semValue' = concurrency
    /\ semWaiters' = <<>>
    /\ completed' = 0
    /\ LET rep == Report(callback, <<>>, InitStats(fn), handed(InitStats(fn)))
       IN  IF callback # "none"
           THEN /\ stats' = rep.stats
                /\ held' = rep.held
                /\ cbCalls' = <<CbCall(0, N, InitStats(fn))>>
           ELSE /\ stats' = InitStats(fn)
                /\ held' = <<>>
                /\ cbCalls' = <<>>
    \* the 0/total call stands outside every try: what it raises leaves the
    \* orchestrator before a task is made
    /\ IF raises(callback, 1)
       THEN /\ opc' = "raised"
            /\ tpc' = tpc
       ELSE /\ opc' = "gather"
            /\ tpc' = [i \in Tasks |-> "created"]
    /\ UNCHANGED <<cvars, kvars, xvars>>
    /\ UNCHANGED <<fn, urls, concurrency, callback, taskResult, finishOrder, result>>

\* lines after the try/except of _one, then leaving `async with sem`
Finish(i, o, st, sem) ==
    LET st2 == Bump(st, o.counter)
        c2  == completed + 1
        rel == release(sem)
        rep == Report(callback, Sync(held, st2), st2, handed(st2))
    IN  /\ completed' = c2
        /\ IF callback # "none"
           THEN /\ stats' = rep.stats
                /\ held' = rep.held
                /\ cbCalls' = Append(cbCalls, CbCall(c2, N, st2))
           ELSE /\ stats' = st2
                /\ held' = held
                /\ cbCalls' = cbCalls
        /\ finishOrder' = Append(finishOrder, i)
        /\ semValue' = rel.value
        /\ semWaiters' = rel.waiters
        \* the report stands after the try/except: what it raises leaves
        \* _one through `async with sem`, which releases the slot
        /\ IF raises(callback, Len(cbCalls) + 1)
           THEN /\ taskResult' = [taskResult EXCEPT ![i] = [raised |-> "callback"]]
                /\ tpc' = [rel.pcs EXCEPT ![i] = "raised"]
           ELSE /\ taskResult' = [taskResult EXCEPT ![i] = o.result]
                /\ tpc' = [rel.pcs EXCEPT ![i] = "done"]

\* a task that failed with an exception _one does not catch
Fail(i, exc, st, sem) ==
    LET rel == release(sem)
    IN  /\ stats' = st
        /\ held' = Sync(held, st)
        /\ taskResult' = [taskResult EXCEPT ![i] = [raised |-> exc]]
        /\ finishOrder' = Append(finishOrder, i)
        /\ semValue' = rel.value
        /\ semWaiters' = rel.waiters
        /\ tpc' = [rel.pcs EXCEPT ![i] = "raised"]
        /\ UNCHANGED <<completed, cbCalls>>

\* a task holding a slot: current_url, then sender.fetch up to its first
\* suspension (an unsafe URL raises before any suspension)
Enter(i, sem) ==
    LET st == IF callback # "none"
              THEN [stats EXCEPT !.current_url = urls[i]] ELSE stats
    IN  IF is_safe_url(urls[i])
        THEN /\ stats' = st
             /\ held' = Sync(held, st)
             /\ semValue' = sem.value
             /\ semWaiters' = sem.waiters
             /\ tpc' = [sem.pcs EXCEPT ![i] = "fetching"]
             /\ UNCHANGED <<completed, cbCalls, taskResult, finishOrder>>
        ELSE LET o == OnException(urls[i], "Unsafe URL")
             IN  IF o.raised THEN Fail(i, "Unsafe URL", st, sem)
                 ELSE Finish(i, o, st, sem)

\* first step of task i: sem.acquire().  The event loop runs new tasks in
\* the order create_task made them.
Acquire(i) ==
    /\ opc = "gather"
    /\ tpc[i] = "created"
    /\ \A j \in 1..(i - 1) : tpc[j] # "created"
    /\ IF ~locked(semValue, semWaiters)
       THEN Enter(i, [value |-> semValue - 1, waiters |-> semWaiters, pcs |-> tpc])
       ELSE /\ semWaiters' = Append(semWaiters, i)
            /\ tpc' = [tpc EXCEPT ![i] = "waiting"]
            /\ UNCHANGED <<semValue, completed, stats, cbCalls, held, taskResult,
                           finishOrder>>
    /\ UNCHANGED <<cvars, kvars, xvars>>
    /\ UNCHANGED <<fn, urls, concurrency, callback, opc, result>>

\* a woken waiter resumes inside sem.acquire() and enters the block
Resume(i) ==
    /\ opc = "gather"
    /\ tpc[i] = "woken"
    /\ LET s1 == [value |-> semValue, waiters |-> SeqWithout(semWaiters, i), pcs |-> tpc]
           s2 == IF s1.value > 0 THEN wake_up_next(s1) ELSE s1
       IN  Enter(i, s2)
    /\ UNCHANGED <<cvars, kvars, xvars>>
    /\ UNCHANGED <<fn, urls, concurrency, callback, opc, result>>

\* sender.fetch returns a response
FetchReturn(i) ==
    /\ opc = "gather"
    /\ tpc[i] = "fetching"
    /\ ~Transport(urls[i]).raises
    /\ Finish(i, OnResponse(fn, Transport(urls[i]).resp), stats,
              [value |-> semValue, waiters |-> semWaiters, pcs |-> tpc])
    /\ UNCHANGED <<cvars, kvars, xvars>>
    /\ UNCHANGED <<fn, urls, concurrency, callback, opc, result>>

\* sender.fetch raises
FetchRaise(i) ==
    /\ opc = "gather"
    /\ tpc[i] = "fetching"
    /\ Transport(urls[i]).raises
    /\ LET o == OnException(urls[i], Transport(urls[i]).exc)
           sem == [value |-> semValue, waiters |-> semWaiters, pcs |-> tpc]
       IN  IF o.raised THEN Fail(i, Transport(urls[i]).exc, stats, sem)
           ELSE Finish(i, o, stats, sem)
    /\ UNCHANGED <<cvars, kvars, xvars>>
    /\ UNCHANGED <<fn, urls, concurrency, callback, opc, result>>

\* results collected as the tasks complete
gather_as_completed(outs, order) == [k \in 1..Len(order) |-> outs[order[k]]]

\* asyncio.gather(*tasks): the results in the order of the tasks
gather(outs, order) == [i \in 1..Len(order) |-> outs[i]]

GatherReturn ==
    /\ opc = "gather"
    /\ \A i \in Tasks : tpc[i] = "done"
    /\ opc' = "returned"
    /\ result' = gather(taskResult, finishOrder)
    /\ UNCHANGED <<cvars, kvars, xvars>>
    /\ UNCHANGED <<fn, urls, concurrency, callback, tpc, semValue, semWaiters,
                   completed, stats, taskResult, finishOrder, cbCalls, held>>

\* gather without return_exceptions: the first exception of a task leaves
\* the orchestrator, and the caller's asyncio.run cancels the tasks that
\* have not ended
GatherRaise ==
    /\ opc = "gather"
    /\ \E i \in Tasks : tpc[i] = "raised"
    /\ opc' = "raised"
    /\ UNCHANGED <<cvars, kvars, xvars>>
    /\ UNCHANGED <<fn, urls, concurrency, callback, tpc, semValue, semWaiters,
                   completed, stats, taskResult, finishOrder, cbCalls, held, result>>

Next ==
    \/ Begin
    \/ \E i \in Tasks : Acquire(i)
    \/ \E i \in Tasks : Resume(i)
    \/ \E i \in Tasks : FetchReturn(i)
    \/ \E i \in Tasks : FetchRaise(i)
    \/ GatherReturn

Init == OrchInit /\ CacheIdle /\ KeyIdle /\ ExtraIdle

Spec == Init /\ [][Next]_vars

\* the orchestrator with a progress callback that may raise
CallbackInit ==
    /\ fn \in {"fetch_all", "scrape_markdown_all"}
    /\ urls \in SeqsUpTo(BatchUrls, MaxUrls)
    /\ concurrency \in 0..MaxConcurrency
    /\ callback \in {"ok"} \cup RaisingCallbacks
    /\ opc = "start"
    /\ tpc = [i \in 1..Len(urls) |-> "new"]
    /\ semValue = 0
    /\ semWaiters = <<>>
    /\ completed = 0
    /\ stats = InitStats(fn)
    /\ taskResult = [i \in 1..Len(urls) |-> NoOutcome]
    /\ finishOrder = <<>>
    /\ cbCalls = <<>>
    /\ held = <<>>
    /\ result = <<>>

CallbackNext == Next \/ GatherRaise

CallbackStart == CallbackInit /\ CacheIdle /\ KeyIdle /\ ExtraIdle

CallbackSpec == CallbackStart /\ [][CallbackNext]_vars

\* the event loop runs a task that is ready, and a transport call that was
\* made returns or raises in the end
\* (every step of Next moves the orchestrator or a task)
FairSpec == Init /\ [][Next]_vars /\ WF_<<opc, tpc>>(Next)

CacheNext ==
    \/ \E r \in CacheRequests, t \in RequestTtls, b \in BOOLEAN : CRequest(r, t, b)
    \/ \E call \in BagToSet(pending) :
          \E resp \in InnerResponses(call.url) : CRespond(call, resp)
    \/ \E call \in BagToSet(pending), exc \in InnerExceptions : CRaise(call, exc)
    \/ \E call \in BagToSet(pending), exc \in SetExceptions :
          \E resp \in InnerResponses(call.url) : CRespondSetFails(call, resp, exc)
    \/ Tick

CacheStart == OrchIdle /\ CacheInit /\ KeyIdle /\ ExtraIdle

CacheSpec == CacheStart /\ [][CacheNext]_vars

KeyNext == ComputeKey

KeyStart == OrchIdle /\ CacheIdle /\ KeyInit /\ ExtraIdle

KeySpec == KeyStart /\ [][KeyNext]_vars

GateNext == CheckUrl

GateStart ==
    OrchIdle /\ CacheIdle /\ KeyIdle /\ GateInit /\ ExplorerIdle /\ ParseIdle /\ PairIdle
    /\ FilterIdle /\ JobIdle

ExplorerNext ==
    \/ Start
    \/ Respond
    \/ \E exc \in TransportExceptions : Raise(exc)

ExplorerStart ==
    OrchIdle /\ CacheIdle /\ KeyIdle /\ GateIdle /\ ExplorerInit /\ ParseIdle /\ PairIdle
    /\ FilterIdle /\ JobIdle

ExplorerSpec == ExplorerStart /\ [][ExplorerNext]_vars

ParseNext == \E uuid \in Uuids : Convert(uuid)

ParseStart ==
    OrchIdle /\ CacheIdle /\ KeyIdle /\ GateIdle /\ ExplorerIdle /\ ParseInit /\ PairIdle
    /\ FilterIdle /\ JobIdle

ParseSpec == ParseStart /\ [][ParseNext]_vars

GateSpec == GateStart /\ [][GateNext]_vars

FilterNext == Filter

FilterStart ==
    OrchIdle /\ CacheIdle /\ KeyIdle /\ GateIdle /\ ExplorerIdle /\ ParseIdle /\ PairIdle
    /\ FilterInit /\ JobIdle

FilterSpec == FilterStart /\ [][FilterNext]_vars

PairNext ==
    \/ \E c \in CallIds : CallStart(c)
    \/ \E c \in CallIds : CallRespond(c)
    \/ \E c \in CallIds : CallRaise(c)

PairStart ==
    OrchIdle /\ CacheIdle /\ KeyIdle /\ GateIdle /\ ExplorerIdle /\ ParseIdle /\ PairInit
    /\ FilterIdle /\ JobIdle

PairSpec == PairStart /\ [][PairNext]_vars

(***************************************************************************)
(* The web jobs: api_jobs_scrape and api_jobs_paginate insert a row into   *)
(* table jobs and start a worker task; the worker ends the job.            *)
(***************************************************************************)
MaxJobs == 2
MaxReports == 2

\* the payloads the two endpoints accept (another payload is answered with
\* status 400 and no row is inserted)
ScrapePayloads ==
    {[urls |-> <<"u1">>, sender |-> "requests"],
     [urls |-> <<"u1">>, sender |-> "decodo"]}
PaginatePayloads ==
    {[tag |-> "python", year |-> 2024, month |-> 1, sender |-> "requests"],
     [tag |-> "python", year |-> 2024, month |-> 13, sender |-> "requests"]}
Payloads(job_type) ==
    IF job_type = "scrape" THEN ScrapePayloads ELSE PaginatePayloads

\* _build_sender raises when sender is decodo and there is no API key
build_sender_error(payload) ==
    IF payload.sender = "decodo"
    THEN Some([type |-> "ValueError", msg |-> "decodo_api_key required for sender=decodo"])
    ELSE Nothing

\* the checks at the head of _worker_paginate
validate(payload) ==
    IF payload.tag = "" THEN Some([type |-> "ValueError", msg |-> "Tag is required"])
    ELSE IF payload.year = 0 \/ payload.month = 0
    THEN Some([type |-> "ValueError", msg |-> "Year and month are required"])
    ELSE IF payload.month < 1 \/ payload.month > 12
    THEN Some([type |-> "ValueError", msg |-> "Month must be between 1 and 12"])
    ELSE IF payload.year < 2000 \/ payload.year > 2030
    THEN Some([type |-> "ValueError", msg |-> "Year must be between 2000 and 2030"])
    ELSE Nothing

\* what scrape_markdown_all or get_articles_by_category can raise in a worker
WorkerExceptions ==
    {[type |-> "ValueError", msg |-> "progress failed"],
     [type |-> "TimeoutError", msg |-> ""]}

\* what they can return
Outputs(row) ==
    IF row.job_type = "scrape"
    THEN {[i \in 1..Len(row.input.urls) |-> [url |-> row.input.urls[i], ok |-> b]] :
             b \in BOOLEAN}
    ELSE {<<>>, <<[id |-> "p1", title |-> "T1"]>>}

\* error_msg of the except branch of a worker
error_msg(exc) ==
    IF exc.msg # "" THEN <<exc.msg>> ELSE <<exc.type, ": ", exc.type, "()">>

\* _job_insert: the new row
job_insert(job_type, payload) ==
    [job_type |-> job_type, status |-> "pending", input |-> payload,
     output |-> Nothing, error |-> Nothing]

\* an update that marks the job as running whenever it is given no status
job_update_touching(row, status, output, error) ==
    IF status # Nothing /\ output # Nothing /\ error # Nothing
    THEN [row EXCEPT !.status = status[1], !.output = output, !.error = error]
    ELSE IF status # Nothing /\ output # Nothing
    THEN [row EXCEPT !.status = status[1], !.output = output]
    ELSE IF status # Nothing /\ error # Nothing
    THEN [row EXCEPT !.status = status[1], !.error = error]
    ELSE IF status # Nothing
    THEN [row EXCEPT !.status = status[1]]
    ELSE [row EXCEPT !.status = "running"]

\* _job_update on the row of the job: the if/elif chain of UPDATE statements
\* (a call with progress alone matches no branch and writes nothing)
job_update(row, status, output, error) ==
    IF status # Nothing /\ output # Nothing /\ error # Nothing
    THEN [row EXCEPT !.status = status[1], !.output = output, !.error = error]
    ELSE IF status # Nothing /\ output # Nothing
    THEN [row EXCEPT !.status = status[1], !.output = output]
    ELSE IF status # Nothing /\ error # Nothing
    THEN [row EXCEPT !.status = status[1], !.error = error]
    ELSE IF status # Nothing
    THEN [row EXCEPT !.status = status[1]]
    ELSE row

\* _job_update(job_id, progress=progress_data)
report_progress(row) == job_update(row, Nothing, Nothing, Nothing)

\* the except branch of a worker
on_worker_exception(row, exc) ==
    job_update(row, Some("error"), Nothing, Some(error_msg(exc)))

JobIds == 1..Len(jobs)

\* a handler runs from _job_insert to its return without an await: nothing
\* else of the process runs in between
HandlerIdle == \A j \in JobIds : workers[j].pc # "inserted"

JobInit ==
    /\ jobs = <<>>
    /\ workers = <<>>

\* api_jobs_scrape / api_jobs_paginate up to the commit of _job_insert
ApiJobsInsert(job_type, payload) ==
    /\ HandlerIdle
    /\ Len(jobs) < MaxJobs
    /\ payload \in Payloads(job_type)
    /\ jobs' = Append(jobs, job_insert(job_type, payload))
    /\ workers' = Append(workers, [pc |-> "inserted", reports |-> 0, late |-> 0,
                                   after |-> 0])
    /\ UNCHANGED jobRest

\* the rest of the handler: _job_update(jid, status="running") and
\* create_task of the worker
ApiJobsRun(j) ==
    /\ workers[j].pc = "inserted"
    /\ jobs' = [jobs EXCEPT ![j] = job_update(@, Some("running"), Nothing, Nothing)]
    /\ workers' = [workers EXCEPT ![j].pc = "created"]
    /\ UNCHANGED jobRest

\* the worker up to its first suspension: _worker_paginate validates and
\* calls the explorer; _worker_scrape calls scrape_markdown_all, which
\* reports 0/total and suspends in gather
WorkerBegin(j) ==
    /\ HandlerIdle
    /\ workers[j].pc = "created"
    /\ LET row == jobs[j]
           bad == IF row.job_type = "paginate" /\ validate(row.input) # Nothing
                  THEN validate(row.input)
                  ELSE build_sender_error(row.input)
       IN  IF bad # Nothing
           THEN /\ jobs' = [jobs EXCEPT ![j] = on_worker_exception(row, bad[1])]
                /\ workers' = [workers EXCEPT ![j].pc = "ended"]
           ELSE IF row.job_type = "scrape"
           THEN /\ jobs' = [jobs EXCEPT ![j] = report_progress(row)]
                /\ workers' = [workers EXCEPT ![j].pc = "awaiting", ![j].reports = 1]
           ELSE /\ jobs' = jobs
                /\ workers' = [workers EXCEPT ![j].pc = "awaiting"]
    /\ UNCHANGED jobRest

\* a task of the batch ends and progress_callback runs
WorkerProgress(j) ==
    /\ HandlerIdle
    /\ workers[j].pc = "awaiting"
    /\ jobs[j].job_type = "scrape"
    /\ workers[j].reports < MaxReports
    /\ jobs' = [jobs EXCEPT ![j] = report_progress(@)]
    /\ workers' = [workers EXCEPT ![j].reports = @ + 1]
    /\ UNCHANGED jobRest

\* the awaited call returns out: _job_update(job_id, status="done", output=out)
WorkerReturn(j, out) ==
    /\ HandlerIdle
    /\ workers[j].pc = "awaiting"
    /\ out \in Outputs(jobs[j])
    /\ jobs' = [jobs EXCEPT ![j] = job_update(@, Some("done"), Some(out), Nothing)]
    /\ workers' = [workers EXCEPT ![j].pc = "ended"]
    /\ UNCHANGED jobRest

\* the awaited call raises exc; gather cancels nothing, so n tasks of the
\* batch are still running when the worker ends
WorkerRaise(j, exc, n) ==
    /\ HandlerIdle
    /\ workers[j].pc = "awaiting"
    /\ exc \in WorkerExceptions
    /\ n \in 0..MaxReports
    /\ n > 0 => jobs[j].job_type = "scrape"
    /\ jobs' = [jobs EXCEPT ![j] = on_worker_exception(@, exc)]
    /\ workers' = [workers EXCEPT ![j].pc = "ended", ![j].late = n]
    /\ UNCHANGED jobRest

\* a task that outlived its worker ends and progress_callback runs
LateProgress(j) ==
    /\ HandlerIdle
    /\ workers[j].pc = "ended"
    /\ workers[j].late > 0
    /\ jobs' = [jobs EXCEPT ![j] = report_progress(@)]
    /\ workers' = [workers EXCEPT ![j].late = @ - 1, ![j].after = @ + 1]
    /\ UNCHANGED jobRest

JobNext ==
    \/ \E job_type \in {"scrape", "paginate"} :
          \E payload \in Payloads(job_type) : ApiJobsInsert(job_type, payload)
    \/ \E j \in JobIds : ApiJobsRun(j)
    \/ \E j \in JobIds : WorkerBegin(j)
    \/ \E j \in JobIds : WorkerProgress(j)
    \/ \E j \in JobIds : \E out \in Outputs(jobs[j]) : WorkerReturn(j, out)
    \/ \E j \in JobIds : \E exc \in WorkerExceptions, n \in 0..MaxReports :
          WorkerRaise(j, exc, n)
    \/ \E j \in JobIds : LateProgress(j)

JobStart ==
    OrchIdle /\ CacheIdle /\ KeyIdle /\ GateIdle /\ ExplorerIdle /\ ParseIdle /\ PairIdle
    /\ FilterIdle /\ JobInit

JobSpec == JobStart /\ [][JobNext]_vars

(***************************************************************************)
(* Properties of the orchestrator (checked under Spec)                     *)
(***************************************************************************)
\* tasks that passed `async with sem` and have not left it
InFlight == {i \in Tasks : tpc[i] = "fetching"}

\* what a call for url alone produces
OutcomeOf(f, url) ==
    IF ~is_safe_url(url) THEN OnException(url, "Unsafe URL").result
    ELSE IF Transport(url).raises THEN OnException(url, Transport(url).exc).result
    ELSE OnResponse(f, Transport(url).resp).result

FetchSucceeds(url) == is_safe_url(url) /\ ~Transport(url).raises
ConversionSucceeds(url) == FetchSucceeds(url) /\ Transport(url).resp.text.article

\* C1: at every instant the number of tasks admitted through the gate and not
\* yet finished is at most `concurrency`.
C1_ConcurrencyBound == Cardinality(InFlight) <= concurrency

C1_Witness ==
    /\ concurrency >= 1
    /\ N > concurrency
    /\ Cardinality(InFlight) = concurrency
    /\ \E i \in Tasks : tpc[i] = "waiting"

\* C2: the returned list holds at position i the outcome of urls[i], whatever
\* order the tasks completed in.
C2_ResultOrder ==
    opc = "returned" =>
        /\ Len(result) = N
        /\ \A i \in Tasks : result[i] = OutcomeOf(fn, urls[i])

C2_Witness ==
    /\ opc = "returned"
    /\ N >= 2
    /\ \A i, j \in Tasks : i # j => urls[i] # urls[j]
    /\ \E k \in 1..(N - 1) : finishOrder[k] > finishOrder[k + 1]

\* C3: whatever mix of transport errors, timeouts, unsafe URLs and conversion
\* failures the batch meets, no task raises, the call returns one record per
\* input URL, and a task that finishes leaves the records of the other tasks
\* as they were.
C3_Inv ==
    /\ opc # "raised"
    /\ \A i \in Tasks : tpc[i] # "raised"
    /\ \A i \in Tasks : tpc[i] = "done" => taskResult[i] = OutcomeOf(fn, urls[i])
    /\ (opc = "gather" /\ \A i \in Tasks : tpc[i] \in {"done", "raised"})
          => ENABLED GatherReturn
    /\ opc = "returned" =>
          /\ Len(result) = Len(urls)
          /\ \A i \in Tasks : result[i].ok \in BOOLEAN

C3_Frame ==
    \A j \in Tasks : tpc[j] = "done" => tpc'[j] = "done" /\ taskResult'[j] = taskResult[j]

C3_BatchNeverAborts == []C3_Inv /\ [][C3_Frame]_vars

C3_Witness ==
    /\ opc = "returned"
    /\ fn = "scrape_markdown_all"
    /\ \E i, j, k \in Tasks :
          /\ urls[i] = UrlDown /\ ~result[i].ok
          /\ urls[j] = UrlPlain /\ ~result[j].ok
          /\ result[k].ok

\* C4: each task of scrape_markdown_all ends in exactly one of three outcomes
\* and increments exactly one counter by one: success (ok, title, markdown),
\* parse_failed (fetch succeeded, conversion failed: not ok, error) or failed
\* (fetch raised: not ok, error).
Finishes(i) == tpc[i] # "done" /\ tpc'[i] = "done"

C4_Step(i) ==
    LET u == urls[i]
        r == taskResult'[i]
        dS == stats'.success - stats.success
        dF == stats'.failed - stats.failed
        dP == stats'.parse_failed - stats.parse_failed
    IN  /\ ConversionSucceeds(u) =>
              /\ DOMAIN r = {"url", "ok", "title", "markdown"} /\ r.ok
              /\ <<dS, dP, dF>> = <<1, 0, 0>>
        /\ (FetchSucceeds(u) /\ ~ConversionSucceeds(u)) =>
              /\ DOMAIN r = {"url", "ok", "error"} /\ ~r.ok
              /\ <<dS, dP, dF>> = <<0, 1, 0>>
        /\ ~FetchSucceeds(u) =>
              /\ DOMAIN r = {"url", "ok", "error"} /\ ~r.ok
              /\ <<dS, dP, dF>> = <<0, 0, 1>>

C4_Action ==
    fn = "scrape_markdown_all" =>
        /\ \A i \in Tasks : Finishes(i) => C4_Step(i)
        /\ (\A i \in Tasks : ~Finishes(i)) =>
              /\ stats'.success = stats.success
              /\ stats'.failed = stats.failed
              /\ stats'.parse_failed = stats.parse_failed

C4_ThreeOutcomes == [][C4_Action]_vars

C4_Witness ==
    /\ fn = "scrape_markdown_all"
    /\ opc = "returned"
    /\ stats.success = 1 /\ stats.parse_failed = 1 /\ stats.failed = 1

\* C5: a supplied progress callback is called once with completed = 0 before
\* any task has started, then once per finished task (len(urls)+1 calls at
\* return), with `completed` never decreasing and equal to total at the end.
Done == {i \in Tasks : tpc[i] = "done"}

C5_ProgressCalls ==
    callback = "ok" =>
        /\ opc = "start" => cbCalls = <<>>
        /\ cbCalls = <<>> => \A i \in Tasks : tpc[i] = "new"
        /\ opc # "start" =>
              /\ Len(cbCalls) = 1 + Cardinality(Done)
              /\ cbCalls[1].completed = 0
              /\ \A k \in 1..(Len(cbCalls) - 1) :
                    cbCalls[k].completed <= cbCalls[k + 1].completed
        /\ opc = "returned" =>
              /\ Len(cbCalls) = Len(urls) + 1
              /\ cbCalls[Len(cbCalls)].completed = cbCalls[Len(cbCalls)].total
              /\ cbCalls[Len(cbCalls)].total = Len(urls)

C5_Witness ==
    /\ callback = "ok"
    /\ opc = "returned"
    /\ N >= 2
    /\ Len(cbCalls) = N + 1

(***************************************************************************)
(* Properties of the transport cache (checked under CacheSpec)             *)
(***************************************************************************)
\* the response get builds from a row
RowResponse(row) ==
    HttpResponse(row.url, row.status_code, loads_headers(row.headers), row.body)

Fresh(cache_key) == {row \in Select(store, cache_key) : ~Expired(row, now)}

\* the steps in which a call looked the cache up, and those in which a call
\* got the transport's response
HitStep == last'.kind = "hit" /\ last' # last
MissStep == pending' # pending /\ last'.kind = "dispatch" /\ last'.why # "bypass"
ResponseStep == pending' # pending /\ last'.kind = "response"

\* C6: every row of the store has status_code 200; a response with another
\* status goes back to the caller as the transport gave it and the store is
\* what it was before.
C6_Only200Rows == \A row \in store : row.status_code = 200

C6_Non200Step ==
    (ResponseStep /\ last'.resp.status_code # 200) =>
        /\ store' = store
        /\ \E call \in BagToSet(pending) :
              /\ call.cache_key = last'.cache_key
              /\ last'.resp \in InnerResponses(call.url)

C6_Only200Persisted == []C6_Only200Rows /\ [][C6_Non200Step]_vars

C6_Witness ==
    /\ last.kind = "response"
    /\ last.resp.status_code = 404
    /\ store # {}
    /\ pending # EmptyBag

\* C7: a request without bypass_cache that finds an unexpired row under its
\* fingerprint returns the stored response and does not go to the transport.
C7_Step ==
    /\ MissStep => Fresh(last'.cache_key) = {}
    /\ HitStep =>
          /\ \E row \in Fresh(last'.cache_key) : last'.resp = RowResponse(row)
          /\ pending' = pending
          /\ store' = store

C7_HitSkipsTransport == [][C7_Step]_vars

C7_Witness ==
    /\ last.kind = "hit"
    /\ last.resp.text = "v2"
    /\ now >= 1

\* C8: get on a row that has a ttl and is older than it misses and deletes the
\* row; a key without a row misses; a row whose ttl is None is returned at
\* every age.
C8_Step ==
    (HitStep \/ MissStep) =>
        LET rows == Select(store, last'.cache_key)
        IN  /\ (\E row \in rows : row.ttl_seconds # Nothing
                                  /\ now - row.created_at > row.ttl_seconds[1]) =>
                   /\ last'.kind = "dispatch"
                   /\ Select(store', last'.cache_key) = {}
            /\ rows = {} => last'.kind = "dispatch"
            /\ (\E row \in rows : row.ttl_seconds = Nothing) =>
                   /\ last'.kind = "hit"
                   /\ store' = store

C9_HeadersIgnored ==
    Len(keyOut) = 2 =>
        LET a == keyArgs[1]
            b == keyArgs[2]
        IN  (/\ upper(a.method) = upper(b.method)
             /\ a.url = b.url
             /\ a.json = b.json
             /\ a.data = b.data) => keyOut[1] = keyOut[2]

C9_Witness ==
    /\ Len(keyOut) = 2
    /\ keyArgs[1].method = MGET /\ keyArgs[2].method = Mget
    /\ keyArgs[1].headers # keyArgs[2].headers
    /\ keyArgs[1].url = keyArgs[2].url
    /\ keyArgs[1].json = keyArgs[2].json
    /\ keyArgs[1].data = keyArgs[2].data
    /\ keyArgs[1].data.t = "bytes"
    /\ keyOut[1] = keyOut[2]

\* C10: two requests with the same method that differ in URL, in JSON body or
\* in raw body (both text, or both bytes, or one of them absent) never get
\* the same fingerprint.
SameKindOfBody(d, e) == d.t = e.t \/ d.t = "none" \/ e.t = "none"

C10_NoCollision ==
    Len(keyOut) = 2 =>
        LET a == keyArgs[1]
            b == keyArgs[2]
        IN  (/\ a.method = b.method
             /\ SameKindOfBody(a.data, b.data)
             /\ (a.url # b.url \/ a.json # b.json \/ a.data # b.data))
            => keyOut[1] # keyOut[2]

(***************************************************************************)
(* C11: when the transport raises, the caller gets that exception, the     *)
(* call is over after its one transport call (nothing is dispatched        *)
(* again), and the store holds exactly the rows it held before.            *)
(***************************************************************************)
RaiseStep == last'.kind = "raise" /\ pending' # pending

C11_Step ==
    RaiseStep =>
        /\ store' = store
        /\ last'.exc \in InnerExceptions
        /\ \E call \in BagToSet(pending) :
              /\ call.cache_key = last'.cache_key
              /\ pending' = pending (-) SetToBag({call})

C11_TransportErrorPropagates == [][C11_Step]_vars

\* a call has just raised while the store holds a row of its key
C11_Witness ==
    /\ last.kind = "raise"
    /\ \E row \in store : row.cache_key = last.cache_key

(***************************************************************************)
(* C12: no request is at the transport for a URL that fails the safety     *)
(* gate; the feed queries that the pagination client POSTs are gated as    *)
(* the orchestrator's GET fetches are.                                     *)
(***************************************************************************)
C12_GateBeforeEveryRequest ==
    wire # Nothing => is_safe_url(wire[1].url)

(***************************************************************************)
(* C13: is_safe_url accepts only https URLs whose host is medium.com or a   *)
(* subdomain of it; a host that merely ends with the characters medium.com *)
(* is rejected, and so is every other scheme.                              *)
(***************************************************************************)
\* chunks that end with the dot that separates labels
DotEnded == {"blog."}

\* the host of a netloc: without the userinfo before the last @ and without
\* the port
RECURSIVE HostOf(_)
HostOf(netloc) ==
    IF \E i \in 1..Len(netloc) : netloc[i] = "user@"
    THEN HostOf(Tail(netloc))
    ELSE IF Len(netloc) >= 1 /\ netloc[Len(netloc)] = ":8080"
         THEN SubSeq(netloc, 1, Len(netloc) - 1)
         ELSE netloc

\* host is medium.com itself or some label(s) and a dot before it
IsMediumHost(host) ==
    /\ Len(host) >= 1
    /\ host[Len(host)] = "medium.com"
    /\ Len(host) = 1 \/ host[Len(host) - 1] \in DotEnded

C13_OnlyMediumHosts ==
    gateOut = Some(TRUE) =>
        /\ gateUrl.scheme = "https"
        /\ IsMediumHost(HostOf(gateUrl.netloc))

(***************************************************************************)
(* C14: for a feed that serves N non-empty pages and then a page with an   *)
(* empty edge list, get_articles_by_category issues exactly N+1 feed       *)
(* queries (retries aside), reaches DONE, and returns exactly the articles *)
(* of the N non-empty pages.                                               *)
(***************************************************************************)
\* body has the shape of a feed response: an array of one element with the
\* keys down to edges, the last edge with a cursor
IsPage(body) ==
    /\ body.kind = "list"
    /\ Len(body.items) = 1
    /\ ~feed_edges(body).raises
    /\ LET edges == feed_edges(body).edges IN
       Len(edges) > 0 => HasKey(edges[Len(edges)], "cursor")

EdgesOf(body) == feed_edges(body).edges

IsNonEmptyPage(body) == IsPage(body) /\ Len(EdgesOf(body)) > 0

IsEmptyPage(body) == IsPage(body) /\ Len(EdgesOf(body)) = 0

\* the endpoint serves n non-empty pages and then an empty one
ServesPages(n) ==
    /\ \A k \in 1..n : IsNonEmptyPage(BodyOf(k))
    /\ IsEmptyPage(BodyOf(n + 1))

\* the articles of the first n bodies, one for each edge that has a node
\* with an id
RECURSIVE ArticlesOfPages(_)
ArticlesOfPages(n) ==
    IF n = 0 THEN <<>>
    ELSE collect_per_item(ArticlesOfPages(n - 1), EdgesOf(BodyOf(n)), Category)

C14_PaginationTerminates ==
    \A n \in 0..MaxPages :
        ServesPages(n) =>
            /\ nqueries <= n + 1
            /\ served = n + 1 => epc = "done"
            /\ epc = "done" =>
                  /\ nqueries = n + 1
                  /\ served = n + 1
                  /\ results = ArticlesOfPages(n)

(***************************************************************************)
(* C15: the first feed query of a call carries the empty cursor, and every *)
(* later query carries the cursor of the last edge of the page that the    *)
(* query before it returned (a retry, of the page returned last).          *)
(***************************************************************************)
\* body k came back with edges
ReturnedPage(k) ==
    /\ BodyOf(k).kind # "text"
    /\ ~feed_edges(BodyOf(k)).raises
    /\ Len(EdgesOf(BodyOf(k))) > 0

\* the cursor of the last edge of the page returned last among the first n
\* bodies, the empty cursor when no page was returned
RECURSIVE LastCursor(_)
LastCursor(n) ==
    IF n = 0 THEN ""
    ELSE IF ReturnedPage(n) /\ HasKey(EdgesOf(BodyOf(n))[Len(EdgesOf(BodyOf(n)))], "cursor")
         THEN EdgesOf(BodyOf(n))[Len(EdgesOf(BodyOf(n)))].cursor
         ELSE LastCursor(n - 1)

C15_CursorChain ==
    wire # Nothing => wire[1].after = LastCursor(served)

(***************************************************************************)
(* C16: when a feed response lacks the expected shape (not the one-element *)
(* list, or a missing data / tagFromSlug / sortedFeed / edges key, or a    *)
(* last edge without a cursor), the call stops paginating and returns the  *)
(* articles of the earlier pages, without raising.                         *)
(* As the code has it: the array may have more than one element; the       *)
(* response is read through its first element alone.                       *)
(***************************************************************************)
\* the keys from an element of the array down to edges
HasFeedKeys(element) ==
    /\ HasKey(element, "data")
    /\ HasKey(element.data, "tagFromSlug")
    /\ HasKey(element.data.tagFromSlug, "sortedFeed")
    /\ HasKey(element.data.tagFromSlug.sortedFeed, "edges")

LastEdgeLacksCursor(element) ==
    LET edges == element.data.tagFromSlug.sortedFeed.edges IN
    Len(edges) > 0 /\ ~HasKey(edges[Len(edges)], "cursor")

\* JSON that is no array with a first element of the expected shape
LacksShape(body) ==
    /\ body.kind # "text"
    /\ \/ body.kind # "list"
       \/ Len(body.items) = 0
       \/ ~HasFeedKeys(body.items[1])
       \/ LastEdgeLacksCursor(body.items[1])

\* the same, an array of several elements included
LacksShapeOrLonger(body) ==
    /\ body.kind # "text"
    /\ \/ LacksShape(body)
       \/ Len(body.items) # 1

\* the step in which the call reads the endpoint's next body
ReadsBody == served' = served + 1

C16_StepAsClaimed ==
    ReadsBody /\ LacksShapeOrLonger(BodyOf(served')) =>
        /\ epc' = "done"
        /\ results' = results
        /\ raised' = None

C16_StopsOnAnyOtherShape == [][C16_StepAsClaimed]_vars

C16_Step ==
    ReadsBody /\ LacksShape(BodyOf(served')) =>
        /\ epc' = "done"
        /\ results' = results
        /\ raised' = None

C16_StopsOnMalformedShape == [][C16_Step]_vars

\* the call returned after a page with articles and a malformed response
C16_Witness ==
    /\ epc = "done"
    /\ served >= 2
    /\ LacksShape(BodyOf(served))
    /\ Len(results) > 0

(***************************************************************************)
(* C17: _post_graphql calls the transport at most max_retries times for    *)
(* one feed query; it returns on the first attempt that succeeds; after a  *)
(* failed attempt k < max_retries it waits retry_backoff_sec * k before    *)
(* attempt k+1; when all max_retries attempts fail it raises the exception *)
(* of the last attempt, and that exception leaves get_articles_by_category.*)
(***************************************************************************)
\* while a request of the query is at the transport, it is the attempt-th
\* transport call of the query, all calls before it failed, and each was
\* followed by one sleep
C17_Inv ==
    wire # Nothing =>
        /\ epc = "request"
        /\ attempt \in 1..max_retries
        /\ Len(errors) = attempt - 1
        /\ Len(slept) = attempt - 1

\* an attempt fails in this step
FailsAttempt == epc = "request" /\ Len(errors') = Len(errors) + 1

\* an attempt succeeds in this step: the body is read and is JSON
SucceedsAttempt == epc = "request" /\ ReadsBody /\ BodyOf(served').kind # "text"

C17_Step ==
    /\ FailsAttempt /\ attempt < max_retries =>
          /\ slept' = Append(slept, retry_backoff_sec * attempt)
          /\ attempt' = attempt + 1
          /\ wire' = wire
          /\ epc' = "request"
          /\ raised' = None
    /\ FailsAttempt /\ attempt >= max_retries =>
          /\ epc' = "raised"
          /\ raised' = errors'[Len(errors')]
          /\ wire' = Nothing
    /\ SucceedsAttempt =>
          \/ epc' = "done" /\ wire' = Nothing
          \/ nqueries' = nqueries + 1 /\ attempt' = 1 /\ errors' = <<>>

C17_BoundedRetries == []C17_Inv /\ [][C17_Step]_vars

\* three attempts failed, with two sleeps between them, and the exception
\* of the third, which is not that of the first, left the call
C17_Witness ==
    /\ epc = "raised"
    /\ max_retries = 3
    /\ Len(errors) = 3
    /\ slept = <<retry_backoff_sec, retry_backoff_sec * 2>>
    /\ errors[1] # errors[3]
    /\ raised = errors[3]

(***************************************************************************)
(* C18: when one edge of a feed page lacks an expected field (no node, or  *)
(* no node id), only that edge is skipped: every well-formed edge of the   *)
(* page, before and after it, yields an Article, and pagination continues. *)
(***************************************************************************)
\* the step reads a page with edges and goes on to the next query
ReadsPage ==
    /\ ReadsBody
    /\ BodyOf(served').kind # "text"
    /\ read_page(BodyOf(served'), cursor).next = "page"

C18_Step ==
    ReadsPage =>
        /\ results' = collect_per_item(results, EdgesOf(BodyOf(served')), Category)
        /\ nqueries' = nqueries + 1

C18_SkipsOnlyMalformedEdge == [][C18_Step]_vars

(***************************************************************************)
(* C19: parse_html is a deterministic function of (html, source_url): two  *)
(* calls on the same input return equal results, the same flag, the same   *)
(* title and the same markdown.                                            *)
(***************************************************************************)
C19_Deterministic ==
    Len(pout) = 2 => pout[1] = pout[2]

(***************************************************************************)
(* C20: for every input, the markdown that parse_html returns has an even  *)
(* number of fence lines: every fence that is opened is closed.            *)
(***************************************************************************)
\* the number of lines of text that are a fence
RECURSIVE CountFences(_)
CountFences(lines) ==
    IF Len(lines) = 0 THEN 0
    ELSE (IF strip(Head(lines)) = Fence THEN 1 ELSE 0) + CountFences(Tail(lines))

C20_FencesBalanced ==
    \A i \in 1..Len(pout) :
        ~pout[i].error => CountFences(split_lines(pout[i].markdown)) % 2 = 0

(***************************************************************************)
(* C21: parse_html never raises.  A page without an <article> gives the    *)
(* failure "Error: No article found on the page."; an exception raised     *)
(* inside the pipeline gives a failure carrying the exception's message,   *)
(* or "Error parsing the article" when that message is empty.              *)
(***************************************************************************)
\* the page makes the try block raise before it returns
RaisesInside ==
    pfault.stage = "soup" \/ (pfault.stage = "pipeline" /\ pdoc.article)

C21_NeverRaises ==
    /\ pexc = <<>>
    /\ \A i \in 1..Len(pout) :
          /\ RaisesInside =>
                /\ pout[i].error
                /\ pout[i].message = IF pfault.msg = "" THEN "Error parsing the article"
                                     ELSE pfault.msg
          /\ (~RaisesInside /\ ~pdoc.article) =>
                /\ pout[i].error
                /\ pout[i].message = "Error: No article found on the page."

C21_Witness ==
    /\ Len(pout) = 2
    /\ pfault = [stage |-> "pipeline", msg |-> ""]
    /\ pdoc.article
    /\ pout[2].message = "Error parsing the article"

(***************************************************************************)
(* C22: for a URL that fails the safety gate, fetch raises "Unsafe URL" at *)
(* once: the request (cache and transport) is never started for it and     *)
(* nothing is retried.  In a batch the URL gets the failure record         *)
(* {ok: false, error: "Unsafe URL"}, counted under `failed`.               *)
(***************************************************************************)
\* the URL is not an https URL of a host ending in medium.com
FailsGate(url) ==
    url.scheme # "https" \/ url.netloc[Len(url.netloc)] # "medium.com"

\* the tasks that ended with an exception record
FailedTasks ==
    {i \in Tasks : tpc[i] = "done"
                   /\ (FailsGate(urls[i]) \/ Transport(urls[i]).raises)}

C22_UnsafeUrlFailsAtOnce ==
    /\ \A i \in Tasks :
          FailsGate(urls[i]) =>
            /\ tpc[i] \in {"new", "created", "waiting", "woken", "done"}
            /\ tpc[i] = "done" =>
                  taskResult[i] = [url |-> urls[i], ok |-> FALSE, error |-> "Unsafe URL"]
    /\ opc # "start" => stats.failed = Cardinality(FailedTasks)

C22_Witness ==
    /\ opc = "returned"
    /\ \E i \in Tasks : FailsGate(urls[i]) /\ result[i].error = "Unsafe URL"
    /\ \E i \in Tasks : ~FailsGate(urls[i])
    /\ stats.failed = 1

(***************************************************************************)
(* C23: two get_articles_by_category calls running concurrently on one     *)
(* explorer, for different tags, each return what the call returns when it *)
(* runs alone: no call reads or writes the other's cursor or result list.  *)
(***************************************************************************)
\* the loop of one call run from cursor cur with the results acc, no other
\* call in between
RECURSIVE run_alone(_, _, _, _)
run_alone(fd, tag, cur, acc) ==
    LET page == read_page(json_loads(PageAfter(fd, cur)).data, cur)
    IN  IF page.next = "break" THEN acc
        ELSE run_alone(fd, tag, page.cursor, collect(acc, page.edges, tag))

C23_ConcurrentCallsIndependent ==
    \A c \in CallIds :
        /\ calls[c].pc = "done" =>
              calls[c].results = run_alone(tagFeed[c], TagOf(c), "", <<>>)
        /\ calls[c].pc = "request" =>
              run_alone(tagFeed[c], TagOf(c), calls[c].cursor, calls[c].results)
                  = run_alone(tagFeed[c], TagOf(c), "", <<>>)

\* both calls returned articles, and the second started and finished while
\* the first was waiting for an answer
C23_Witness ==
    /\ calls[1].pc = "request" /\ Len(calls[1].results) = 2
    /\ calls[2].pc = "done" /\ Len(calls[2].results) = 2
    /\ tagFeed[1] # tagFeed[2]

(***************************************************************************)
(* C24: under every interleaving of concurrent requests through one sender *)
(* the store holds at most one row per fingerprint, and after a write the  *)
(* row of the fingerprint is wholly the response written last: url,        *)
(* status, headers and body of that response, created at that time, never  *)
(* a mixture with the fields of an earlier write.                          *)
(***************************************************************************)
C24_OneRowPerKey ==
    \A r1 \in store : \A r2 \in store : r1.cache_key = r2.cache_key => r1 = r2

C24_Step ==
    (ResponseStep /\ last'.resp.status_code = 200) =>
        \E row \in store' :
            /\ Select(store', last'.cache_key) = {row}
            /\ row.url = last'.resp.url
            /\ row.status_code = last'.resp.status_code
            /\ row.headers = dumps_headers(last'.resp.headers)
            /\ row.body = last'.resp.text
            /\ row.created_at = now
            /\ \A other \in store : other.cache_key # row.cache_key => other \in store'

C24_LastWriterWins == []C24_OneRowPerKey /\ [][C24_Step]_vars

\* a second write for a fingerprint, later than the first, while one more
\* request for the fingerprint is still with the transport
C24_Witness ==
    /\ last.kind = "response"
    /\ last.resp.text = "v2"
    /\ now = 2
    /\ \E row \in store : row.cache_key = last.cache_key /\ row.body = "v2"
                           /\ row.created_at = 2
    /\ \E call \in BagToSet(pending) : call.cache_key = last.cache_key

(***************************************************************************)
(* C29: a request with bypass_cache goes to the transport, also when an    *)
(* unexpired row is stored under its fingerprint, and leaves the store as  *)
(* it is; a status-200 response replaces the row (new body, new            *)
(* created_at, new ttl), and a request without bypass_cache made after it  *)
(* gets that response from the cache.                                      *)
(***************************************************************************)
\* a request reached its return from the cache or its dispatch
BypassStep == last'.kind \in {"hit", "dispatch"} /\ last'.bypass /\ pending' # pending

C29_Step ==
    /\ (last'.kind = "hit" /\ last' # last) => ~last'.bypass
    /\ BypassStep =>
          /\ last'.kind = "dispatch"
          /\ store' = store
          /\ BagCardinality(pending') = BagCardinality(pending) + 1
          /\ \E call \in BagToSet(pending') : call.cache_key = last'.cache_key
    /\ (ResponseStep /\ last'.resp.status_code = 200) =>
          LET got == cache_get(store', last'.cache_key, now)
          IN  /\ got.hit
              /\ got.rows = store'
              /\ got.resp.text = last'.resp.text
              /\ got.resp.url = last'.resp.url
              /\ got.resp.status_code = 200
              /\ got.resp.headers = loads_headers(dumps_headers(last'.resp.headers))

C29_BypassRefreshes == [][C29_Step]_vars

\* a bypassing request was dispatched although the store has an unexpired
\* row under its fingerprint
C29_Witness ==
    /\ last.kind = "dispatch"
    /\ last.bypass
    /\ Fresh(last.cache_key) # {}

(***************************************************************************)
(* C30: a row is written with the ttl_seconds of the request when one is   *)
(* given, the value 0 included, otherwise with the default_ttl_seconds of  *)
(* the sender, and with no ttl when neither is set; a row with no ttl      *)
(* does not expire.                                                        *)
(***************************************************************************)
C30_Step ==
    (ResponseStep /\ last'.resp.status_code = 200) =>
        \E call \in BagToSet(pending) :
            /\ pending' = pending (-) SetToBag({call})
            /\ call.cache_key = last'.cache_key
            /\ \A row \in Select(store', call.cache_key) :
                  /\ call.ttl_seconds # Nothing => row.ttl_seconds = call.ttl_seconds
                  /\ (call.ttl_seconds = Nothing /\ default_ttl_seconds # Nothing) =>
                        row.ttl_seconds = default_ttl_seconds
                  /\ (call.ttl_seconds = Nothing /\ default_ttl_seconds = Nothing) =>
                        /\ row.ttl_seconds = Nothing
                        /\ \A t \in now..(MaxTime + 1) : ~Expired(row, t)

C30_TtlOfEntry == [][C30_Step]_vars

\* a row written with the ttl 0 of its request by a sender whose default is 1
C30_Witness ==
    /\ last.kind = "response"
    /\ default_ttl_seconds = Some(1)
    /\ \E row \in Select(store, last.cache_key) :
          row.ttl_seconds = Some(0) /\ row.body = last.resp.text /\ row.created_at = now

(***************************************************************************)
(* C25: the stats mapping given to a progress callback is a snapshot copy. *)
(* Counter updates the orchestrator makes later do not change a snapshot   *)
(* already given out, and a callback that writes into its snapshot changes *)
(* neither the orchestrator's counters nor a later snapshot.               *)
(***************************************************************************)
\* the tasks counted in a stats dict
Counted(st) ==
    st.success + st.failed + (IF "parse_failed" \in DOMAIN st THEN st.parse_failed ELSE 0)

\* the counters are counts, and they add up to c
CountsUpTo(st, c) ==
    /\ st.success >= 0
    /\ st.failed >= 0
    /\ "parse_failed" \in DOMAIN st => st.parse_failed >= 0
    /\ Counted(st) = c

C25_SnapshotIsCopy ==
    callback # "none" =>
        /\ Len(held) = Len(cbCalls)
        /\ \A k \in 1..Len(held) :
              /\ held[k].value = AfterCallback(callback, cbCalls[k].stats)
              /\ CountsUpTo(cbCalls[k].stats, cbCalls[k].completed)
        /\ opc # "start" => CountsUpTo(stats, completed)

\* a callback wrote into each of its three snapshots, and the counters went
\* on from 0/0 to 1/1
C25_Witness ==
    /\ callback = "mutating"
    /\ Len(held) = 3
    /\ \A k \in 1..3 : held[k].value.failed = -1
    /\ cbCalls[1].stats.failed = 0 /\ cbCalls[1].stats.success = 0
    /\ stats.failed = 1 /\ stats.success = 1

(***************************************************************************)
(* C26: the boilerplate filter removes a line only if its 0-based index in *)
(* the text entering the pass is below 40 and its stripped content is one  *)
(* of the fixed boilerplate strings; every line at index 40 or above is    *)
(* kept, also when it is "Share", "Listen", "Published in", "1", "--" or   *)
(* the middle dot.  The lines kept stay in their order.                    *)
(***************************************************************************)
\* the 1-based positions of the lines the claim says are kept
KeptPositions ==
    {i \in 1..Len(flines) : ~(i - 1 < 40 /\ strip(flines[i]) \in undesired)}

C26_BoilerplateWindow ==
    fkept # Nothing =>
        /\ Len(fkept[1]) = Cardinality(KeptPositions)
        /\ \A i \in KeptPositions :
              fkept[1][Cardinality({j \in KeptPositions : j <= i})] = flines[i]

\* a Share line at index 39 was dropped and one at index 40 kept
C26_Witness ==
    /\ fkept # Nothing
    /\ Len(flines) = 42
    /\ flines[40] = <<"S", "h", "a", "r", "e">>
    /\ flines[41] = <<"S", "h", "a", "r", "e">>
    /\ Len(fkept[1]) = 41
    /\ fkept[1][40] = <<"S", "h", "a", "r", "e">>

(***************************************************************************)
(* C27: the text of a <pre> block stands in the markdown parse_html        *)
(* returns between an opening and a closing fence exactly as it is in the  *)
(* HTML, same lines and same characters: no later pass alters it.          *)
(***************************************************************************)
\* the lines body stand in lines between two fence lines
HasFenced(lines, body) ==
    \E a \in 1..Len(lines) : \E b \in (a + 1)..Len(lines) :
        /\ lines[a] = Fence
        /\ lines[b] = Fence
        /\ SubSeq(lines, a + 1, b - 1) = body

C27_PreVerbatim ==
    \A code \in PreTexts :
        pdoc.text = convert_pre(code) =>
            \A i \in 1..Len(pout) :
                ~pout[i].error => HasFenced(split_lines(pout[i].markdown), split_lines(code))

(***************************************************************************)
(* C28: get_articles_by_category returns exactly one Article per feed edge *)
(* it received, each with the requested tag slug as category and the empty *)
(* string as content, in the order the edges were served (page order, then *)
(* edge order within a page), with no deduplication.                       *)
(***************************************************************************)
\* the edges of the pages among the first n bodies that the loop read as a
\* page with edges
RECURSIVE ReceivedEdges(_)
ReceivedEdges(n) ==
    IF n = 0 THEN <<>>
    ELSE ReceivedEdges(n - 1)
         \o (IF BodyOf(n).kind # "text" /\ read_page(BodyOf(n), "").next = "page"
             THEN EdgesOf(BodyOf(n)) ELSE <<>>)

C28_OneArticlePerEdge ==
    epc = "done" =>
        LET edges == ReceivedEdges(served)
        IN  /\ Len(results) = Len(edges)
            /\ \A k \in 1..Len(results) :
                  results[k].category = Category /\ results[k].content = ""
            /\ results = collect_per_item(<<>>, edges, Category)

(***************************************************************************)
(* C31: after a status-200 response has been stored, a later request with  *)
(* the same fingerprint, made before expiry and without bypass, returns a  *)
(* response with the url, status_code, headers and body of the one stored: *)
(* write then read is a round trip.                                        *)
(***************************************************************************)
C31_Step ==
    /\ (ResponseStep /\ last'.resp.status_code = 200) =>
          /\ cache_get(store', last'.cache_key, now).hit
          /\ \A t \in now..(MaxTime + 1) :
                LET got == cache_get(store', last'.cache_key, t)
                IN  got.hit => got.resp = last'.resp
    /\ HitStep =>
          /\ last'.resp.status_code = 200
          /\ last'.resp \in InnerResponses(last'.resp.url)

C31_RoundTrip == [][C31_Step]_vars

\* a request served from the cache, later than the write, with the headers
\* and the body the transport gave
C31_Witness ==
    /\ last.kind = "hit"
    /\ last.resp.text = "v1"
    /\ last.resp.headers = CtHtml
    /\ now = 2
    /\ \E row \in store : row.cache_key = last.cache_key /\ row.created_at = 0

(***************************************************************************)
(* C32: every result of parse_html is either a success, with title and     *)
(* markdown set and no message, or a failure, with a message set and no    *)
(* title.  No result has both a title and an error message, and the        *)
(* markdown of a failure is its message, not the output of a pipeline that *)
(* ran in part.                                                            *)
(***************************************************************************)
C32_NeverPartial ==
    \A i \in 1..Len(pout) :
        /\ pout[i].error =>
              /\ pout[i].title = None
              /\ pout[i].message # None
              /\ pout[i].message # ""
              /\ pout[i].markdown = pout[i].message
        /\ ~pout[i].error =>
              /\ pout[i].message = None
              /\ \E uuid \in Uuids :
                    pout[i].title = resolve_title(pdoc.meta_title, pdoc.h1, uuid)
              /\ Len(pout[i].markdown) >= 0

\* a failure of a page that has an article: the pipeline had begun
C32_Witness ==
    /\ Len(pout) >= 1
    /\ pdoc.article
    /\ pfault = [stage |-> "pipeline", msg |-> "boom"]
    /\ pout[1].error
    /\ pout[1].markdown = "boom"

(***************************************************************************)
(* C33: at every progress callback of scrape_markdown_all, completed is    *)
(* success + failed + parse_failed and lies between 0 and total, under     *)
(* every interleaving of the tasks.                                        *)
(***************************************************************************)
C33_CountersAddUp ==
    fn = "scrape_markdown_all" =>
        \A k \in 1..Len(cbCalls) :
            LET call == cbCalls[k] IN
            /\ call.completed
                  = call.stats.success + call.stats.failed + call.stats.parse_failed
            /\ 0 <= call.completed
            /\ call.completed <= call.total
            /\ call.total = Len(urls)

\* three tasks, two at a time, ended in the three ways
C33_Witness ==
    /\ fn = "scrape_markdown_all"
    /\ concurrency = 2
    /\ Len(cbCalls) = 4
    /\ cbCalls[4].completed = 3
    /\ cbCalls[4].stats.success = 1
    /\ cbCalls[4].stats.failed = 1
    /\ cbCalls[4].stats.parse_failed = 1
    /\ cbCalls[2].stats.parse_failed = 1

(***************************************************************************)
(* C34: when every transport call returns or raises in the end, then for   *)
(* every concurrency the orchestrator accepts every task of the batch is   *)
(* admitted in the end and fetch_all / scrape_markdown_all returns.        *)
(***************************************************************************)
C34_EventuallyReturns ==
    <>(opc = "returned" /\ \A i \in Tasks : tpc[i] = "done")

(***************************************************************************)
(* C35: after a page with edges, the next feed query of the call never     *)
(* carries the empty cursor: a null or empty cursor of the last edge does  *)
(* not make pagination start again from the first page of the window.      *)
(***************************************************************************)
C35_NoRestart ==
    (wire # Nothing /\ nqueries >= 2) => wire[1].after # ""

(***************************************************************************)
(* C36: a feed response whose body is not valid JSON is handled like a     *)
(* transport failure: the query is sent again, up to max_retries attempts  *)
(* in all, and then the decode error is raised to the caller; the call     *)
(* does not end pagination silently as it does on missing keys.            *)
(***************************************************************************)
\* the body read in this step is not JSON
ReadsNotJson == epc = "request" /\ ReadsBody /\ BodyOf(served').kind = "text"

C36_Step ==
    ReadsNotJson =>
        /\ errors' = Append(errors, "JSONDecodeError")
        /\ results' = results
        /\ cursor' = cursor
        /\ epc' # "done"
        /\ attempt < max_retries =>
              /\ epc' = "request"
              /\ attempt' = attempt + 1
              /\ wire' = wire
        /\ attempt >= max_retries =>
              /\ epc' = "raised"
              /\ raised' = "JSONDecodeError"

C36_NotJsonRetriedThenRaised == [][C36_Step]_vars

\* two attempts, both answered with text that is not JSON: the decode error
\* left the call
C36_Witness ==
    /\ epc = "raised"
    /\ raised = "JSONDecodeError"
    /\ max_retries = 2
    /\ errors = <<"JSONDecodeError", "JSONDecodeError">>
    /\ slept = <<retry_backoff_sec>>

(***************************************************************************)
(* C37: when the write to the cache store fails after the transport        *)
(* returned, request still returns the transport's response to its caller  *)
(* and raises nothing.                                                     *)
(***************************************************************************)
\* the transport returned and cache.set raised in this step
SetFailsStep == pending' # pending /\ "set_error" \in DOMAIN last'

C37_Step ==
    SetFailsStep =>
        /\ last'.kind # "raise"
        /\ "resp" \in DOMAIN last'
        /\ last'.resp = last'.inner

C37_SetFailureSwallowed == [][C37_Step]_vars

\* the store refused the write of a 200 response and holds nothing; the
\* caller has the response all the same
C37_Witness ==
    /\ "set_error" \in DOMAIN last
    /\ last.set_error = "OperationalError"
    /\ last.kind = "set_failed"
    /\ last.resp = HttpResponse(UrlGood, 200, CtHtml, "v1")
    /\ store = {}
    /\ pending = EmptyBag

(***************************************************************************)
(* C38: two requests with one fingerprint that both look the cache up      *)
(* before either response is stored both go to the transport (a miss does  *)
(* not join a call in flight), each gets a response of its own, and the    *)
(* store holds one row for the fingerprint afterwards.                     *)
(***************************************************************************)
\* the calls in flight for cache_key
FlyingFor(flying, cache_key) ==
    LET same == {c \in BagToSet(flying) : c.cache_key = cache_key}
    IN  BagCardinality([c \in same |-> CopiesIn(c, flying)])

\* a call that missed went on to the transport; the transport returned to a
\* call
DispatchStep == last'.kind = "dispatch" /\ (last' # last \/ pending' # pending)
ReturnStep == last'.kind \in {"response", "set_failed"} /\ pending' # pending

C38_OneRowPerKey ==
    \A row1 \in store, row2 \in store :
        row1.cache_key = row2.cache_key => row1 = row2

C38_Step ==
    /\ DispatchStep =>
          /\ FlyingFor(pending', last'.cache_key) = FlyingFor(pending, last'.cache_key) + 1
          /\ BagCardinality(pending') = BagCardinality(pending) + 1
    /\ ReturnStep =>
          /\ FlyingFor(pending', last'.cache_key) = FlyingFor(pending, last'.cache_key) - 1
          /\ BagCardinality(pending') = BagCardinality(pending) - 1
          /\ last'.resp \in InnerResponses(last'.resp.url)
    /\ (ResponseStep /\ last'.resp.status_code = 200) =>
          Cardinality(Select(store', last'.cache_key)) = 1

C38_MissesNotCoalesced == []C38_OneRowPerKey /\ [][C38_Step]_vars

\* a call looked the cache up, found no row and went to the transport
\* while a call with the same fingerprint was in flight
C38_Witness ==
    /\ last.kind = "dispatch"
    /\ ~last.bypass
    /\ last.why = "absent"
    /\ FlyingFor(pending, last.cache_key) = 2
    /\ Select(store, last.cache_key) = {}

(***************************************************************************)
(* C39: an exception raised by the progress callback, in the 0/total call  *)
(* or after a task ended, does not abort the batch: no exception leaves    *)
(* the orchestrator or a task, and what the orchestrator returns has one   *)
(* outcome record per input URL.  (Checked under CallbackSpec.)            *)
(***************************************************************************)
C39_CallbackErrorContained ==
    callback \in RaisingCallbacks =>
        /\ opc # "raised"
        /\ \A i \in Tasks : tpc[i] # "raised"
        /\ opc = "returned" =>
              /\ Len(result) = Len(urls)
              /\ \A i \in Tasks : "ok" \in DOMAIN result[i]

(***************************************************************************)
(* C40: the status of a web job only moves pending -> running -> done or   *)
(* error: a job whose worker ran to its end is done or error, and a job    *)
(* that is done or error keeps its status, whatever progress updates       *)
(* follow.  (Checked under JobSpec.)                                       *)
(***************************************************************************)
StatusMoves ==
    {<<"pending", "running">>, <<"running", "done">>, <<"running", "error">>}

C40_Ended ==
    \A j \in JobIds :
        /\ jobs[j].status \in {"pending", "running", "done", "error"}
        /\ workers[j].pc = "ended" =>
              /\ jobs[j].status \in {"done", "error"}
              /\ jobs[j].status = "done" => jobs[j].output # Nothing
              /\ jobs[j].status = "error" => jobs[j].error # Nothing
        /\ jobs[j].status \in {"done", "error"} => workers[j].pc = "ended"

C40_Step ==
    /\ \A j \in JobIds :
          jobs'[j].status # jobs[j].status =>
              <<jobs[j].status, jobs'[j].status>> \in StatusMoves
    /\ Len(jobs') > Len(jobs) => jobs'[Len(jobs')].status = "pending"

C40_StatusLifecycle == []C40_Ended /\ [][C40_Step]_vars

\* a scrape job ended in error and two progress updates came after that; a
\* paginate job is done
C40_Witness ==
    \E j, k \in JobIds :
        /\ jobs[j].job_type = "scrape"
        /\ jobs[j].status = "error"
        /\ workers[j].after = 2
        /\ workers[j].reports >= 1
        /\ jobs[k].job_type = "paginate"
        /\ jobs[k].status = "done"

====
